---- MODULE Spec2Model ----
(***************************************************************************)
(* Model of the web-graph canvas: the GraphVisualizer page with its        *)
(* GraphView canvas, and the two other canvas implementations              *)
(* (SimpleDragGraph, D3Graph).                                             *)
(*                                                                         *)
(* React state is modelled as two records: the current value of every      *)
(* useState cell and ref (app, view), and the values captured by the       *)
(* handlers that were bound at the last commit (closure).  A handler reads *)
(* state through the closure, reads refs directly, and writes state either *)
(* absolutely (setX(v)) or functionally (setX(prev => ...)).  Discrete     *)
(* events (mousedown, mouseup, click, file load) are rendered before the   *)
(* next event; the updates of continuous events (mousemove, wheel) are     *)
(* rendered by a later task, the Render action.                            *)
(*                                                                         *)
(* Numbers are exact rationals; the code computes in IEEE doubles.         *)
(***************************************************************************)
EXTENDS Integers, Sequences, FiniteSets, TLC

VARIABLES
    impl,       \* which canvas component is mounted by the host
    app,        \* state of the host component (GraphVisualizer, or a recording host)
    view,       \* state and refs of the canvas component
    closure,    \* [app, view] as captured by the handlers bound at the last commit
    obs         \* observations: the notifications sent, the last event, gesture history

vars == <<impl, app, view, closure, obs>>

-----------------------------------------------------------------------------
(* Bounds of the model                                                     *)

MaxOps == 5          \* user events per run of the page; completions (release, file load, render) are free
MaxCanvasOps == 3    \* user events per run of a canvas on its own
MaxDenominator == 1000   \* a zoom step is taken from transforms with denominators up to this
MaxColourOps == 5  \* user events per run of a canvas with its colour dialogs
MaxTokens == 3     \* connections in a text given to the parser on its own

-----------------------------------------------------------------------------
(* Exact rational arithmetic                                               *)

RECURSIVE GCD(_, _)
GCD(a, b) == IF b = 0 THEN a ELSE GCD(b, a % b)

Abs(i) == IF i < 0 THEN -i ELSE i

Rat(n, d) ==
    LET g == GCD(Abs(n), Abs(d))
        s == IF d < 0 THEN -1 ELSE 1
    IN  [n |-> (s * n) \div g, d |-> (s * d) \div g]

RInt(i) == [n |-> i, d |-> 1]
RAdd(a, b) ==
    LET g == GCD(a.d, b.d)
    IN  Rat(a.n * (b.d \div g) + b.n * (a.d \div g), (a.d \div g) * b.d)
RNeg(a) == [n |-> -a.n, d |-> a.d]
RSub(a, b) == RAdd(a, RNeg(b))
RMul(a, b) ==
    LET g1 == GCD(Abs(a.n), b.d)
        g2 == GCD(Abs(b.n), a.d)
    IN  Rat((a.n \div g1) * (b.n \div g2), (a.d \div g2) * (b.d \div g1))
RDiv(a, b) == RMul(a, Rat(b.d, b.n))
RLt(a, b) == a.n * b.d < b.n * a.d
RLe(a, b) == a.n * b.d <= b.n * a.d
RMin(a, b) == IF RLe(a, b) THEN a ELSE b
RMax(a, b) == IF RLe(a, b) THEN b ELSE a

Pt(x, y) == [x |-> x, y |-> y]
PInt(x, y) == Pt(RInt(x), RInt(y))
PAdd(p, q) == Pt(RAdd(p.x, q.x), RAdd(p.y, q.y))
PSub(p, q) == Pt(RSub(p.x, q.x), RSub(p.y, q.y))
PScale(p, k) == Pt(RMul(p.x, k), RMul(p.y, k))
PUnscale(p, k) == Pt(RDiv(p.x, k), RDiv(p.y, k))

-----------------------------------------------------------------------------
(* Values                                                                  *)

None == "none"          \* undefined / null, where a string is expected
Null == [null |-> TRUE]  \* undefined / null, where an object is expected
NodeIds == {"A", "B", "C"}

\* the group key of a node: properties.group, or "default"
groupOf(node) ==
    IF node.properties # Null /\ node.properties.group # None
    THEN node.properties.group ELSE "default"

defaultColors ==
    << "#4285F4", "#EA4335", "#FBBC05", "#34A853", "#8E24AA",
       "#00ACC1", "#FB8C00", "#607D8B", "#E91E63", "#9E9E9E" >>

\* first index of the node with this id, 0 when there is none (Array.find / findIndex)
IndexOf(nodes, id) ==
    IF \E i \in 1..Len(nodes) : nodes[i].id = id
    THEN CHOOSE i \in 1..Len(nodes) :
            /\ nodes[i].id = id
            /\ \A j \in 1..(i - 1) : nodes[j].id # id
    ELSE 0

MapSeq(s, F(_)) == [i \in 1..Len(s) |-> F(s[i])]

IdsOf(nodes) == {nodes[i].id : i \in 1..Len(nodes)}

-----------------------------------------------------------------------------
(* lib/graph-parser.ts                                                     *)
(* The connection text is a sequence of characters, each a one-character   *)
(* string; "emdash" and "endash" stand for U+2014 and U+2013.  The         *)
(* properties text is [json, entries]: "empty" (blank), "bad" (JSON.parse  *)
(* throws, with its message) or "ok" with the [id, bag] entries in key     *)
(* order.                                                                  *)

Blank == [json |-> "empty", entries |-> <<>>]
BadJSON == [json |-> "bad", entries |-> <<>>, message |-> "Unexpected token } in JSON at position 1"]
JSONText(entries) == [json |-> "ok", entries |-> entries]

Whitespace == {" ", "\t", "\n"}      \* \s, as far as the texts of the model go

\* the string of a sequence of characters
RECURSIVE Str(_)
Str(cs) == IF cs = <<>> THEN "" ELSE Head(cs) \o Str(Tail(cs))

\* String.prototype.trim
RECURSIVE trimStart(_)
trimStart(cs) == IF cs # <<>> /\ Head(cs) \in Whitespace THEN trimStart(Tail(cs)) ELSE cs
RECURSIVE trimEnd(_)
trimEnd(cs) == IF cs # <<>> /\ cs[Len(cs)] \in Whitespace THEN trimEnd(SubSeq(cs, 1, Len(cs) - 1)) ELSE cs
trim(cs) == trimEnd(trimStart(cs))

\* split(/[,;\n]/): the pieces between the separators, empty pieces included
splitAt(cs, cuts) == [k \in 1..(Len(cuts) - 1) |-> SubSeq(cs, cuts[k] + 1, cuts[k + 1] - 1)]
split(cs) ==
    splitAt(cs, <<0>> \o SelectSeq([i \in 1..Len(cs) |-> i], LAMBDA i : cs[i] \in {",", ";", "\n"})
                     \o <<Len(cs) + 1>>)

\* the character classes [^-=>\s] and [^-=>\s[] of the connection pattern
sourceChar(c) == c \notin {"-", "=", ">"} \cup Whitespace
targetChar(c) == sourceChar(c) /\ c # "["

\* \s* from position p: the first position that holds no whitespace
skipSpace(cs, p) ==
    CHOOSE q \in p..(Len(cs) + 1) :
        /\ \A k \in p..(q - 1) : cs[k] \in Whitespace
        /\ q = Len(cs) + 1 \/ cs[q] \notin Whitespace

\* (?:->|=>|emdash|endash|-) at position p: the length of the alternative that matches, or 0
arrowAt(cs, p) ==
    IF p > Len(cs) THEN 0
    ELSE IF cs[p] \in {"-", "="} /\ p < Len(cs) /\ cs[p + 1] = ">" THEN 2
    ELSE IF cs[p] \in {"emdash", "endash", "-"} THEN 1
    ELSE 0

\* ([^-=>\s[]+) from position p: the position after the longest run, p when there is none
targetEnd(cs, p) ==
    CHOOSE q \in p..(Len(cs) + 1) :
        /\ \A k \in p..(q - 1) : targetChar(cs[k])
        /\ q = Len(cs) + 1 \/ ~targetChar(cs[q])

\* (?:\[([^\]]+)\])? at position p: the position of the closing bracket, 0 when the group does not match
colorEnd(cs, p) ==
    IF p > Len(cs) \/ cs[p] # "[" THEN 0
    ELSE IF \E q \in (p + 2)..Len(cs) : cs[q] = "]" /\ \A k \in (p + 1)..(q - 1) : cs[k] # "]"
    THEN CHOOSE q \in (p + 2)..Len(cs) : cs[q] = "]" /\ \A k \in (p + 1)..(q - 1) : cs[k] # "]"
    ELSE 0

\* the pattern after the source, the source ending before position p: the
\* arrow and the target are there
restMatches(cs, p) ==
    /\ arrowAt(cs, skipSpace(cs, p)) > 0
    /\ targetEnd(cs, skipSpace(cs, skipSpace(cs, p) + arrowAt(cs, skipSpace(cs, p))))
          > skipSpace(cs, skipSpace(cs, p) + arrowAt(cs, skipSpace(cs, p)))

\* the ends of a source that starts at position i and lets the pattern match
sourceEnds(cs, i) ==
    {j \in i..Len(cs) : (\A k \in i..j : sourceChar(cs[k])) /\ restMatches(cs, j + 1)}

Largest(S) == CHOOSE x \in S : \A y \in S : y <= x
Smallest(S) == CHOOSE x \in S : \A y \in S : x <= y

\* the groups of the match with the source cs[i..j]; t is where the target starts
groupsFrom(cs, i, j, t) ==
    [ok |-> TRUE,
     source |-> Str(SubSeq(cs, i, j)),
     target |-> Str(SubSeq(cs, t, targetEnd(cs, t) - 1)),
     color |-> IF colorEnd(cs, targetEnd(cs, t)) = 0 THEN None
               ELSE Str(SubSeq(cs, targetEnd(cs, t) + 1, colorEnd(cs, targetEnd(cs, t)) - 1))]

matchFrom(cs, i, j) ==
    groupsFrom(cs, i, j, skipSpace(cs, skipSpace(cs, j + 1) + arrowAt(cs, skipSpace(cs, j + 1))))

matchAt(cs, i) == matchFrom(cs, i, Largest(sourceEnds(cs, i)))

\* connection.match(...): the leftmost match, the source as long as it can be; [ok |-> FALSE] is null
match(cs) ==
    IF \E i \in 1..Len(cs) : sourceEnds(cs, i) # {}
    THEN matchAt(cs, Smallest({i \in 1..Len(cs) : sourceEnds(cs, i) # {}}))
    ELSE [ok |-> FALSE]

\* connectionsText.split(/[,;\n]/).map(conn => conn.trim()).filter(Boolean)
connections(connectionsText) ==
    SelectSeq(MapSeq(split(connectionsText), trim), LAMBDA conn : conn # <<>>)

NewNode(id, properties) ==
    [id |-> id, name |-> id, properties |-> properties, color |-> None, pos |-> Null]

RECURSIVE parseConnections(_, _, _)
parseConnections(tokens, nodes, links) ==
    IF tokens = <<>> THEN [nodes |-> nodes, links |-> links]
    ELSE LET t == Head(tokens) IN
         IF ~t.ok THEN parseConnections(Tail(tokens), nodes, links)
         ELSE LET n1 == IF IndexOf(nodes, t.source) = 0
                        THEN Append(nodes, NewNode(t.source, Null)) ELSE nodes
                  n2 == IF IndexOf(n1, t.target) = 0
                        THEN Append(n1, NewNode(t.target, Null)) ELSE n1
              IN  parseConnections(Tail(tokens), n2,
                     Append(links, [source |-> t.source, target |-> t.target, color |-> t.color]))

\* a property pass that leaves every label alone
RECURSIVE parsePropertiesKeepName(_, _)
parsePropertiesKeepName(entries, nodes) ==
    IF entries = <<>> THEN nodes
    ELSE IF IndexOf(nodes, Head(entries).id) # 0
    THEN parsePropertiesKeepName(Tail(entries),
            [nodes EXCEPT ![IndexOf(nodes, Head(entries).id)].properties = Head(entries).bag])
    ELSE parsePropertiesKeepName(Tail(entries), Append(nodes, NewNode(Head(entries).id, Head(entries).bag)))

RECURSIVE parseProperties(_, _)
parseProperties(entries, nodes) ==
    IF entries = <<>> THEN nodes
    ELSE LET e == Head(entries)
             i == IndexOf(nodes, e.id)
         IN  IF i # 0
             THEN parseProperties(Tail(entries),
                    [nodes EXCEPT ![i] =
                        [@ EXCEPT !.properties = e.bag,
                                  !.name = IF e.bag.name # None THEN e.bag.name ELSE @]])
             ELSE parseProperties(Tail(entries), Append(nodes, NewNode(e.id, e.bag)))

\* a parser that takes malformed properties for none
parseWithLenient(cs, conn, propertiesText) ==
    [ok |-> TRUE,
     nodes |-> IF propertiesText.json = "ok" THEN parseProperties(propertiesText.entries, conn.nodes)
               ELSE conn.nodes,
     links |-> conn.links,
     warned |-> SelectSeq(cs, LAMBDA c : ~match(c).ok)]

\* the document of the connections conn, then of the properties; warned: the
\* connections console.warn reports; [ok |-> FALSE, message] is the thrown Error
parseWith(cs, conn, propertiesText) ==
    IF propertiesText.json = "bad"
    THEN [ok |-> FALSE, message |-> "Failed to parse node properties: " \o propertiesText.message]
    ELSE [ok |-> TRUE,
          nodes |-> IF propertiesText.json = "empty" THEN conn.nodes
                    ELSE parseProperties(propertiesText.entries, conn.nodes),
          links |-> conn.links,
          warned |-> SelectSeq(cs, LAMBDA c : ~match(c).ok)]

parseGraphData(connectionsText, propertiesText) ==
    parseWith(connections(connectionsText),
              parseConnections(MapSeq(connections(connectionsText), match), <<>>, <<>>),
              propertiesText)

-----------------------------------------------------------------------------
(* components/graph-visualizer: derived values                             *)

\* the group names of the model in the order of Array.prototype.sort()
GroupNames == << "a", "b", "default" >>
Groups == {GroupNames[i] : i \in 1..Len(GroupNames)}

groupsIn(nodes) == {groupOf(nodes[i]) : i \in 1..Len(nodes)}

\* Array.from(groups).sort()
sortedGroups(nodes) == SelectSeq(GroupNames, LAMBDA g : g \in groupsIn(nodes))

PositionIn(s, g) == CHOOSE i \in 1..Len(s) : s[i] = g

\* the effect on graphData.nodes that keeps groupColorMap
groupColorMapEffect(prev, nodes) ==
    LET sorted == sortedGroups(nodes) IN
    [g \in Groups |->
        IF prev[g] = None /\ g \in groupsIn(nodes)
        THEN defaultColors[((PositionIn(sorted, g) - 1) % Len(defaultColors)) + 1]
        ELSE prev[g]]

\* Array.from(new Set(nodes.map(node => node.properties?.group || "default"))):
\* the group keys in the order in which the nodes bring them
groups(nodes) ==
    LET first == SelectSeq([i \in 1..Len(nodes) |-> i],
                           LAMBDA i : \A j \in 1..(i - 1) : groupOf(nodes[j]) # groupOf(nodes[i]))
    IN  [k \in 1..Len(first) |-> groupOf(nodes[first[k]])]

paletteEntry(index) == defaultColors[((index - 1) % Len(defaultColors)) + 1]

\* components/graph-view.tsx: colorScale, over [...groups].sort(); a group that
\* is not a key of the map reads as undefined
colorScale(nodes, customGroupColors) ==
    [g \in Groups |->
        IF g \notin groupsIn(nodes) THEN None
        ELSE IF customGroupColors[g] # None THEN customGroupColors[g]
        ELSE paletteEntry(PositionIn(sortedGroups(nodes), g))]

\* components/simple-drag-graph.tsx: colorScale, over groups as they come
simpleColorScale(nodes, customGroupColors) ==
    [g \in Groups |->
        IF g \notin groupsIn(nodes) THEN None
        ELSE IF customGroupColors[g] # None THEN customGroupColors[g]
        ELSE paletteEntry(PositionIn(groups(nodes), g))]

\* D3Graph: colorScale(group).  d3.scaleOrdinal().domain(groups).range(defaultColors);
\* scale.range() hands out a copy, so the assignment of a custom colour to
\* scale.range()[i] leaves the scale as it was; a key outside the domain is appended
d3ColorScale(nodes, group) ==
    IF group \in groupsIn(nodes) THEN paletteEntry(PositionIn(groups(nodes), group))
    ELSE paletteEntry(Len(groups(nodes)) + 1)

\* a fill that takes the colour of the group whatever the node's own colour is
circleFillGroupFirst(node, scale) ==
    IF scale[groupOf(node)] # None THEN scale[groupOf(node)] ELSE node.color

\* the fill of a node circle in GraphView and SimpleDragGraph, given the colorScale
circleFill(node, scale) ==
    IF node.color # None THEN node.color ELSE scale[groupOf(node)]

\* the fill createGraph gives the circle of a node in D3Graph
d3CircleFill(node, nodes, customGroupColors) ==
    IF node.color # None THEN node.color
    ELSE IF node.properties # Null /\ node.properties.group # None
    THEN IF customGroupColors[node.properties.group] # None
         THEN customGroupColors[node.properties.group]
         ELSE d3ColorScale(nodes, node.properties.group)
    ELSE d3ColorScale(nodes, "default")

visibleNodes(a) ==
    MapSeq(SelectSeq(a.graphData.nodes, LAMBDA node : groupOf(node) \notin a.hiddenGroups),
           LAMBDA node :
              [node EXCEPT !.color =
                  IF node.color # None THEN node.color
                  ELSE IF a.groupColorMap[groupOf(node)] # None
                       THEN a.groupColorMap[groupOf(node)] ELSE "#888"])

visibleEdges(a) ==
    LET visibleNodeIds == IdsOf(visibleNodes(a)) IN
    SelectSeq(a.graphData.links,
              LAMBDA link : link.source \in visibleNodeIds /\ link.target \in visibleNodeIds)

simpleNodes(a) ==
    MapSeq(visibleNodes(a),
           LAMBDA node : [id |-> node.id,
                          label |-> IF node.name # None THEN node.name ELSE node.id,
                          properties |-> node.properties,
                          color |-> node.color,
                          pos |-> node.pos])

simpleEdges(a) ==
    MapSeq(visibleEdges(a),
           LAMBDA link : [from |-> link.source, to |-> link.target, color |-> link.color])

\* the nodes and edges props the canvas receives from its host
Props(a) ==
    IF a.kind = "GraphVisualizer"
    THEN [nodes |-> simpleNodes(a), edges |-> simpleEdges(a)]
    ELSE a.props

-----------------------------------------------------------------------------
(* components/graph-view.tsx: state, effects                               *)

Origin == PInt(0, 0)

\* the useState / useRef initial values of the canvas; mounted is FALSE while
\* the component is not in the tree
InitialView ==
    [mounted |-> FALSE,
     nodes |-> <<>>, zoom |-> RInt(1), pan |-> Origin,
     dragging |-> None, dragOffset |-> Origin,
     isPanning |-> FALSE, panStart |-> Origin,
     nodePositionsRef |-> [id \in NodeIds |-> Null],
     isInitializedRef |-> FALSE,
     contextMenuNode |-> None, showContextMenu |-> FALSE,
     selectedNode |-> None, isColorDialogOpen |-> FALSE,
     selectedGroup |-> None, groupColorDialogOpen |-> FALSE,
     customGroupColors |-> [g \in Groups |-> None],
     docMove |-> {}, docUp |-> {}]      \* the mousemove, mouseup listeners on document

\* document.addEventListener / removeEventListener: a listener counts once,
\* however often it is added; removing another function removes nothing
addListener(registered, listener) == registered \cup {listener}
removeListener(registered, listener) == registered \ {listener}

\* the effect on handleMouseMove, handleMouseUp (GraphView, SimpleDragGraph) and its cleanup
listenersEffect(v) ==
    [v EXCEPT !.docMove = addListener(@, "handleMouseMove"),
              !.docUp = addListener(@, "handleMouseUp")]

listenersCleanup(v) ==
    [v EXCEPT !.docMove = removeListener(@, "handleMouseMove"),
              !.docUp = removeListener(@, "handleMouseUp")]

\* the canvas at its first render
MountedView == listenersEffect([InitialView EXCEPT !.mounted = TRUE])

\* the effects with the position of the prop winning over the stored one
initialNodesEffectPropFirst(v, props, rnd) ==
    LET ref == [id \in NodeIds |->
                  IF IndexOf(props.nodes, id) # 0 /\ props.nodes[IndexOf(props.nodes, id)].pos # Null
                  THEN props.nodes[IndexOf(props.nodes, id)].pos
                  ELSE IF v.nodePositionsRef[id] # Null THEN v.nodePositionsRef[id]
                  ELSE IF IndexOf(props.nodes, id) = 0 THEN Null
                  ELSE rnd[id]]
    IN  [v EXCEPT !.nodePositionsRef = ref,
                  !.isInitializedRef = TRUE,
                  !.nodes = MapSeq(props.nodes, LAMBDA node : [node EXCEPT !.pos = ref[node.id]])]

\* the two effects on initialNodes: a stored position wins, then the position
\* of the prop, then a random position rnd[id]
initialNodesEffect(v, props, rnd) ==
    LET ref == [id \in NodeIds |->
                  IF v.nodePositionsRef[id] # Null THEN v.nodePositionsRef[id]
                  ELSE IF IndexOf(props.nodes, id) = 0 THEN Null
                  ELSE IF props.nodes[IndexOf(props.nodes, id)].pos # Null
                       THEN props.nodes[IndexOf(props.nodes, id)].pos
                       ELSE rnd[id]]
    IN  [v EXCEPT !.nodePositionsRef = ref,
                  !.isInitializedRef = TRUE,
                  !.nodes = MapSeq(props.nodes, LAMBDA node : [node EXCEPT !.pos = ref[node.id]])]

\* components/simple-drag-graph.tsx: the effect on initialNodes keeps the position
\* of a node it already renders and places every other node at random
simpleDragNodesEffect(v, props, rnd) ==
    [v EXCEPT !.nodes =
        MapSeq(props.nodes,
               LAMBDA node :
                  [node EXCEPT !.pos =
                      IF IndexOf(v.nodes, node.id) # 0
                      THEN v.nodes[IndexOf(v.nodes, node.id)].pos
                      ELSE rnd[node.id]])]

-----------------------------------------------------------------------------
(* exportToPlantUML (graph-parser.ts). A text is the sequence of its pieces:  *)
(* the characters of ids, names and colours one by one, the literals of the   *)
(* code as they stand, every line break a piece of its own. An absent or      *)
(* empty string is <<>>, which is what || and the tests on it tell apart.     *)

\* the class [a-zA-Z0-9_]
WordChars ==
    { "a", "b", "c", "d", "e", "f", "g", "h", "i", "j", "k", "l", "m",
      "n", "o", "p", "q", "r", "s", "t", "u", "v", "w", "x", "y", "z",
      "A", "B", "C", "D", "E", "F", "G", "H", "I", "J", "K", "L", "M",
      "N", "O", "P", "Q", "R", "S", "T", "U", "V", "W", "X", "Y", "Z",
      "0", "1", "2", "3", "4", "5", "6", "7", "8", "9", "_" }

\* String.prototype.replace with a string pattern: the first occurrence only
RECURSIVE replaceFirst(_, _, _)
replaceFirst(cs, c, by) ==
    IF cs = <<>> THEN <<>>
    ELSE IF Head(cs) = c THEN by \o Tail(cs)
    ELSE << Head(cs) >> \o replaceFirst(Tail(cs), c, by)

\* a replace that stops at the first character outside the class
RECURSIVE sanitizeFirst(_)
sanitizeFirst(id) ==
    IF id = <<>> THEN <<>>
    ELSE IF Head(id) \notin WordChars THEN << "_" >> \o Tail(id)
    ELSE << Head(id) >> \o sanitizeFirst(Tail(id))

\* id.replace(/[^a-zA-Z0-9_]/g, "_")
RECURSIVE sanitize(_)
sanitize(id) ==
    IF id = <<>> THEN <<>>
    ELSE << IF Head(id) \notin WordChars THEN "_" ELSE Head(id) >> \o sanitize(Tail(id))

typeColor(nodeType) ==
    CASE nodeType = "source" -> << "#", "4", "c", "a", "f", "5", "0" >>
      [] nodeType = "process" -> << "#", "2", "1", "9", "6", "f", "3" >>
      [] nodeType = "decision" -> << "#", "f", "f", "9", "8", "0", "0" >>
      [] nodeType = "sink" -> << "#", "f", "4", "4", "3", "3", "6" >>
      [] OTHER -> <<>>

\* the colour of a declaration: the node's own, else the one of its type
nodeColorOf(node) ==
    LET nodeType == IF node.properties # Null /\ node.properties.type # None
                    THEN node.properties.type ELSE ""
    IN  IF node.color # <<>> THEN node.color ELSE typeColor(nodeType)

colorSuffix(color) ==
    IF color # <<>> THEN << " #" >> \o replaceFirst(color, "#", <<>>) ELSE <<>>

\* one pass of the loop over graphData.nodes
nodeDeclaration(node) ==
    LET nodeId == sanitize(node.id)
        nodeName == IF node.name # <<>> THEN node.name ELSE node.id
    IN  << "node \"" >> \o nodeName \o << "\" as " >> \o nodeId
            \o colorSuffix(nodeColorOf(node)) \o << "\n" >>

\* one pass of the loop over graphData.links; an end is the id or the node object
linkLine(link) ==
    LET sourceId == sanitize(link.source.id)
        targetId == sanitize(link.target.id)
    IN  sourceId \o << " --> " >> \o targetId \o colorSuffix(link.color) \o << "\n" >>

RECURSIVE concatMap(_, _)
concatMap(lines, k) ==
    IF k > Len(lines) THEN <<>> ELSE lines[k] \o concatMap(lines, k + 1)

plantUMLHeader ==
    << "@startuml", "\n",
       "skinparam node {", "\n",
       "  BackgroundColor white", "\n",
       "  BorderColor black", "\n",
       "  FontSize 12", "\n",
       "}", "\n", "\n" >>

exportToPlantUML(graphData) ==
    plantUMLHeader
        \o concatMap([i \in 1..Len(graphData.nodes) |-> nodeDeclaration(graphData.nodes[i])], 1)
        \o << "\n" >>
        \o concatMap([j \in 1..Len(graphData.links) |-> linkLine(graphData.links[j])], 1)
        \o << "@enduml" >>

\* a call that writes the colour of the declaration back into the node
exportCallColouring(graphData) ==
    [text |-> exportToPlantUML(graphData),
     graphData |-> [graphData EXCEPT !.nodes =
                        [i \in 1..Len(graphData.nodes) |->
                            [graphData.nodes[i] EXCEPT !.color = nodeColorOf(graphData.nodes[i])]]]]

\* a call: the text it returns and the document it leaves; the function
\* assigns to its local variables only
exportCall(graphData) ==
    [text |-> exportToPlantUML(graphData), graphData |-> graphData]

\* the strings the documents of the page hold, by their characters
PageTexts ==
    { << "A" >>, << "B" >>, << "C" >>, << "A", "B" >>, << "7" >>,
      << "N", "o", "d", "e", " ", "A" >>, << "N", "o", "d", "e", " ", "B" >>,
      << "N", "o", "d", "e", " ", "C" >>,
      << "r", "e", "d" >>, << "#", "8", "8", "8" >>,
      << "#", "4", "2", "8", "5", "F", "4" >>, << "#", "E", "A", "4", "3", "3", "5" >>,
      << "#", "F", "B", "B", "C", "0", "5" >>,
      << "a" >>, << "b" >>, << "d", "e", "f", "a", "u", "l", "t" >> }

TextOf == [s \in {Str(cs) : cs \in PageTexts} |-> CHOOSE cs \in PageTexts : Str(cs) = s]

\* the document of the page as exportToPlantUML reads it: the strings by their
\* characters, undefined as the empty string, properties by their type field
\* (no bag of the page has one)
asText(graphData) ==
    [nodes |-> [i \in 1..Len(graphData.nodes) |->
                  LET node == graphData.nodes[i] IN
                  [id |-> TextOf[node.id],
                   name |-> IF node.name = None THEN <<>> ELSE TextOf[node.name],
                   properties |-> IF node.properties = Null THEN Null ELSE [type |-> None],
                   color |-> IF node.color = None THEN <<>> ELSE TextOf[node.color]]],
     links |-> [j \in 1..Len(graphData.links) |->
                  LET link == graphData.links[j] IN
                  [source |-> [object |-> FALSE, id |-> TextOf[link.source]],
                   target |-> [object |-> FALSE, id |-> TextOf[link.target]],
                   color |-> IF link.color = None THEN <<>> ELSE TextOf[link.color]]]]

\* undefined.replace: a node without an id, a link without one of its ends
exportThrows(graphData) ==
    \/ \E i \in 1..Len(graphData.nodes) : graphData.nodes[i].id = None
    \/ \E j \in 1..Len(graphData.links) :
          graphData.links[j].source = None \/ graphData.links[j].target = None

\* the string exportToPlantUML returns for a document of the page
plantUML(graphData) == Str(exportToPlantUML(asText(graphData)))

Digits == { "0", "1", "2", "3", "4", "5", "6", "7", "8", "9" }

\* typeof value === "string" && !isNaN(Number(value)), for the strings of the
\* model: digits only (the empty string counts as 0)
numeric(value) == value # None /\ \A k \in 1..Len(TextOf[value]) : TextOf[value][k] \in Digits

\* the keys of the bags under which a node has a numeric value; a null entry
\* has no properties to read
numericProperties(nodes) ==
    {key \in {"name", "group"} :
        \E i \in 1..Len(nodes) :
            /\ nodes[i].properties # Null
            /\ numeric(IF key = "name" THEN nodes[i].properties.name
                       ELSE nodes[i].properties.group)}

-----------------------------------------------------------------------------
(* components/graph-visualizer: handlers.  w is the world being written    *)
(* (app, view, emitted notifications), c the closure the handler was       *)
(* bound with.                                                             *)

handleGraphUpdate(w, c, updatedNodes, updatedEdges) ==
    LET nodes == MapSeq(updatedNodes,
                   LAMBDA node : [id |-> node.id, name |-> node.label,
                                  properties |-> node.properties,
                                  color |-> node.color, pos |-> node.pos])
        links == MapSeq(updatedEdges,
                   LAMBDA edge : [source |-> edge.from, target |-> edge.to, color |-> edge.color])
        old == c.app.graphData.links
        \* existingLinkMap: the last link stored under the key source->target
        HasLink(l) == \E i \in 1..Len(old) : old[i].source = l.source /\ old[i].target = l.target
        existingLink(l) ==
            old[CHOOSE i \in 1..Len(old) :
                  /\ old[i].source = l.source /\ old[i].target = l.target
                  /\ \A j \in (i + 1)..Len(old) :
                        ~(old[j].source = l.source /\ old[j].target = l.target)]
        updatedGraphData ==
            [nodes |-> MapSeq(c.app.graphData.nodes,
                         LAMBDA existingNode :
                            IF IndexOf(nodes, existingNode.id) # 0
                            THEN [existingNode EXCEPT
                                     !.color = nodes[IndexOf(nodes, existingNode.id)].color,
                                     !.pos = nodes[IndexOf(nodes, existingNode.id)].pos]
                            ELSE existingNode),
             links |-> MapSeq(links,
                         LAMBDA link :
                            IF HasLink(link) /\ existingLink(link).color # None /\ link.color = None
                            THEN [link EXCEPT !.color = existingLink(link).color]
                            ELSE link)]
    IN  [w EXCEPT !.app.graphData = updatedGraphData,
                  !.app.plantUMLText = IF exportThrows(updatedGraphData) THEN @
                                       ELSE plantUML(updatedGraphData)]

\* a deletion that clears the fixed node and leaves graphData to handleGraphUpdate
handleDeleteNodeFixedOnly(w, c, nodeId) ==
    [w EXCEPT !.app.fixedNode = IF c.app.fixedNode = nodeId THEN None ELSE @]

handleDeleteNodeApp(w, c, nodeId) ==
    LET updatedGraphData ==
            [nodes |-> SelectSeq(c.app.graphData.nodes, LAMBDA node : node.id # nodeId),
             links |-> SelectSeq(c.app.graphData.links,
                          LAMBDA link : link.source # nodeId /\ link.target # nodeId)]
    IN  IF exportThrows(updatedGraphData)
        THEN [w EXCEPT !.app.graphData = updatedGraphData]    \* the rest is not reached
        ELSE [w EXCEPT !.app.graphData = updatedGraphData,
                       !.app.plantUMLText = plantUML(updatedGraphData),
                       !.app.fixedNode = IF c.app.fixedNode = nodeId THEN None ELSE @]

\* Fix Node Info of the context menu: the node becomes the fixed one
handleFixNodeInfo(w, node) == [w EXCEPT !.app.fixedNode = node]

handleGenerateGraph(w) ==
    LET data == parseGraphData(w.app.nodeConnections, w.app.nodeProperties) IN
    IF ~data.ok THEN [w EXCEPT !.app.error = data.message]
    ELSE IF Len(data.nodes) = 0 THEN w
    ELSE [w EXCEPT !.app.availableProperties = numericProperties(data.nodes),
                   !.app.graphData = [nodes |-> data.nodes, links |-> data.links],
                   !.app.error = None,
                   !.app.plantUMLText = plantUML([nodes |-> data.nodes, links |-> data.links]),
                   !.app.hiddenGroups = {},
                   !.app.activeTab = "visualization"]

\* the click on an example: it fills the text areas and generates at once
handleExampleDataApply(w, connectionsText, propertiesText) ==
    LET data == parseGraphData(connectionsText, propertiesText)
        typed == [w EXCEPT !.app.nodeConnections = connectionsText,
                           !.app.nodeProperties = propertiesText] IN
    IF ~data.ok THEN [typed EXCEPT !.app.error = data.message]
    ELSE [typed EXCEPT !.app.availableProperties = numericProperties(data.nodes),
                       !.app.graphData = [nodes |-> data.nodes, links |-> data.links],
                       !.app.error = None,
                       !.app.plantUMLText = plantUML([nodes |-> data.nodes, links |-> data.links]),
                       !.app.hiddenGroups = {},
                       !.app.activeTab = "visualization"]

\* reader.onload of handleImportGraph; a file is [json, hasNodes, hasLinks, hasEdges,
\* nodes, links]: it parses as JSON, its nodes / links / edges field is an array
\* a node entry that is null: reading its properties throws
entryThrows(nodes) == \E i \in 1..Len(nodes) : nodes[i] = Null

\* the title of the toast the import ends with
importToast(file) ==
    IF ~file.json THEN "Failed to import graph"
    ELSE IF ~file.hasNodes \/ ~file.hasLinks THEN "Invalid graph file format"
    ELSE IF entryThrows(file.nodes) THEN "Failed to import graph"
    ELSE IF exportThrows([nodes |-> file.nodes, links |-> file.links]) THEN "Failed to import graph"
    ELSE "Graph imported"

importOnload(w, file) ==
    LET graphState == [nodes |-> file.nodes, links |-> file.links] IN
    IF ~file.json THEN w
    ELSE IF ~file.hasNodes \/ ~file.hasLinks THEN w
    ELSE IF entryThrows(file.nodes) THEN w
    ELSE IF exportThrows(graphState)
    THEN [w EXCEPT !.app.availableProperties = numericProperties(file.nodes),
                   !.app.graphData = graphState]       \* caught in exportToPlantUML
    ELSE [w EXCEPT !.app.availableProperties = numericProperties(file.nodes),
                   !.app.graphData = graphState,
                   !.app.plantUMLText = plantUML(graphState),
                   !.app.hiddenGroups = {},
                   !.app.activeTab = "visualization"]

\* the graphState object handleExportGraph writes to graph-state.json
handleExportGraph(a) ==
    IF Len(a.graphData.nodes) = 0 THEN Null
    ELSE [nodes |-> a.graphData.nodes, links |-> a.graphData.links, version |-> "1.0"]

\* JSON.parse of a written state, as importOnload reads it: which of its fields are arrays
fileOf(graphState) ==
    [json |-> TRUE,
     hasNodes |-> "nodes" \in DOMAIN graphState,
     hasLinks |-> "links" \in DOMAIN graphState,
     hasEdges |-> "edges" \in DOMAIN graphState,
     nodes |-> IF "nodes" \in DOMAIN graphState THEN graphState.nodes ELSE <<>>,
     links |-> IF "links" \in DOMAIN graphState THEN graphState.links ELSE <<>>]

toggleGroupVisibility(w, group) ==
    [w EXCEPT !.app.hiddenGroups = IF group \in @ THEN @ \ {group} ELSE @ \cup {group}]

showAllGroups(w) == [w EXCEPT !.app.hiddenGroups = {}]

hideAllGroups(w, c) == [w EXCEPT !.app.hiddenGroups = groupsIn(c.app.graphData.nodes)]

\* the callback the canvas receives as onGraphUpdate
onGraphUpdate(w, c, nodes, edges) ==
    LET w1 == IF c.app.kind = "GraphVisualizer" THEN handleGraphUpdate(w, c, nodes, edges) ELSE w
    IN  [w1 EXCEPT !.emitted = Append(@, [nodes |-> nodes, edges |-> edges])]

\* the callback the canvas receives as onDeleteNode
onDeleteNode(w, c, nodeId) ==
    IF c.app.kind = "GraphVisualizer" THEN handleDeleteNodeApp(w, c, nodeId) ELSE w

\* the callback the canvas receives as onZoomChange
onZoomChange(w, newZoom) ==
    IF w.app.kind = "GraphVisualizer" THEN [w EXCEPT !.app.zoom = newZoom] ELSE w

-----------------------------------------------------------------------------
(* components/graph-view.tsx: handlers                                     *)

\* screen -> world with the pan and zoom of a render
adjusted(mouse, cv) == PUnscale(PSub(mouse, cv.pan), cv.zoom)

\* a press on a node that goes on to the background, as without stopPropagation
handleNodeMouseDownBubbling(w, c, nodeId, mouse) ==
    LET i == IndexOf(c.view.nodes, nodeId) IN
    IF i = 0 \/ c.view.nodes[i].pos = Null THEN w
    ELSE [w EXCEPT !.view.dragOffset = PSub(c.view.nodes[i].pos, adjusted(mouse, c.view)),
                   !.view.dragging = nodeId,
                   !.view.isPanning = TRUE,
                   !.view.panStart = mouse]

handleNodeMouseDown(w, c, nodeId, mouse) ==
    LET i == IndexOf(c.view.nodes, nodeId) IN
    IF i = 0 \/ c.view.nodes[i].pos = Null THEN w
    ELSE [w EXCEPT !.view.dragOffset = PSub(c.view.nodes[i].pos, adjusted(mouse, c.view)),
                   !.view.dragging = nodeId]

handleMouseMove(w, c, mouse) ==
    IF c.view.isPanning
    THEN [w EXCEPT !.view.pan = PAdd(@, PSub(mouse, c.view.panStart)),
                   !.view.panStart = mouse]
    ELSE IF c.view.dragging # None
    THEN LET newPos == PAdd(adjusted(mouse, c.view), c.view.dragOffset) IN
         [w EXCEPT !.view.nodePositionsRef[c.view.dragging] = newPos,
                   !.view.nodes = MapSeq(w.view.nodes,
                                    LAMBDA node : IF node.id = c.view.dragging
                                                  THEN [node EXCEPT !.pos = newPos] ELSE node)]
    ELSE w

\* a pointer-up that resets the controller without notifying the host
handleMouseUpSilent(w, c) == [w EXCEPT !.view.dragging = None, !.view.isPanning = FALSE]

handleMouseUp(w, c) ==
    LET w1 == IF c.view.dragging # None
              THEN onGraphUpdate(w, c, c.view.nodes, Props(c.app).edges)
              ELSE w
    IN  [w1 EXCEPT !.view.dragging = None, !.view.isPanning = FALSE]

handleSvgMouseDown(w, button, mouse) ==
    IF button # 0 THEN w
    ELSE [w EXCEPT !.view.isPanning = TRUE, !.view.panStart = mouse]

handleNodeRightClick(w, nodeId) ==
    [w EXCEPT !.view.contextMenuNode = nodeId, !.view.showContextMenu = TRUE]

handleClickOutside(w) == [w EXCEPT !.view.showContextMenu = FALSE]

handleDeleteNode(w, c, nodeId) ==
    LET updatedNodes == SelectSeq(c.view.nodes, LAMBDA node : node.id # nodeId)
        updatedEdges == SelectSeq(Props(c.app).edges,
                           LAMBDA edge : edge.from # nodeId /\ edge.to # nodeId)
        w1 == [w EXCEPT !.view.nodePositionsRef[nodeId] = Null,
                        !.view.nodes = updatedNodes]
        w2 == onDeleteNode(onGraphUpdate(w1, c, updatedNodes, updatedEdges), c, nodeId)
    IN  [w2 EXCEPT !.view.showContextMenu = FALSE]

handleOpenColorDialog(w, c) ==
    IF c.view.contextMenuNode = None THEN w
    ELSE [w EXCEPT !.view.selectedNode = c.view.contextMenuNode,
                   !.view.isColorDialogOpen = TRUE,
                   !.view.showContextMenu = FALSE]

handleApplyNodeColor(w, c, nodeColor) ==
    IF c.view.selectedNode = None THEN w
    ELSE LET Recolour(nodes) ==
                MapSeq(nodes, LAMBDA node : IF node.id = c.view.selectedNode
                                            THEN [node EXCEPT !.color = nodeColor] ELSE node)
             w1 == [w EXCEPT !.view.nodes = Recolour(w.view.nodes),
                             !.view.isColorDialogOpen = FALSE]
         IN  onGraphUpdate(w1, c, Recolour(c.view.nodes), Props(c.app).edges)

\* components/simple-drag-graph.tsx: the legend opens the dialog of a group
handleOpenGroupColorDialog(w, group) ==
    [w EXCEPT !.view.selectedGroup = group, !.view.groupColorDialogOpen = TRUE]

\* components/simple-drag-graph.tsx: the colour goes to customGroupColors and
\* into the color of the members that have properties.group and no color; the
\* host is told the nodes of the render
handleApplyGroupColor(w, c, groupColor) ==
    IF c.view.selectedGroup = None THEN w
    ELSE onGraphUpdate(
            [w EXCEPT !.view.customGroupColors[c.view.selectedGroup] = groupColor,
                      !.view.nodes =
                          MapSeq(w.view.nodes,
                                 LAMBDA node :
                                    IF /\ node.properties # Null
                                       /\ node.properties.group = c.view.selectedGroup
                                       /\ node.color = None
                                    THEN [node EXCEPT !.color = groupColor] ELSE node),
                      !.view.groupColorDialogOpen = FALSE],
            c, c.view.nodes, Props(c.app).edges)

\* a wheel zoom that scales about the origin: the pan stays as it is
handleWheelKeepPan(w, c, mouse, deltaY) ==
    LET zoomFactor == IF -deltaY > 0 THEN Rat(11, 10) ELSE Rat(9, 10)
        newZoom == RMax(Rat(1, 10), RMin(RInt(5), RMul(c.view.zoom, zoomFactor)))
    IN  onZoomChange([w EXCEPT !.view.zoom = newZoom], newZoom)

\* Math.max(0.1, Math.min(5, zoom * zoomFactor)), and the pan that keeps the
\* point under the mouse
handleWheel(w, c, mouse, deltaY) ==
    LET zoomFactor == IF -deltaY > 0 THEN Rat(11, 10) ELSE Rat(9, 10)
        newZoom == RMax(Rat(1, 10), RMin(RInt(5), RMul(c.view.zoom, zoomFactor)))
        mouseGraph == adjusted(mouse, c.view)
        newPan == PSub(mouse, PScale(mouseGraph, newZoom))
    IN  onZoomChange([w EXCEPT !.view.zoom = newZoom, !.view.pan = newPan], newZoom)

handleZoomIn(w) ==
    LET newZoom == RMin(RMul(w.view.zoom, Rat(12, 10)), RInt(5))
    IN  onZoomChange([w EXCEPT !.view.zoom = newZoom], newZoom)

handleZoomOut(w) ==
    LET newZoom == RMax(RDiv(w.view.zoom, Rat(12, 10)), Rat(1, 10))
    IN  onZoomChange([w EXCEPT !.view.zoom = newZoom], newZoom)

handleResetZoom(w) ==
    onZoomChange([w EXCEPT !.view.zoom = RInt(1), !.view.pan = Origin], RInt(1))

-----------------------------------------------------------------------------
(* components/simple-drag-graph.tsx: handlers.  handleNodeMouseDown,       *)
(* handleMouseUp and handleSvgMouseDown (147-177, 223-245) read as the     *)
(* ones of graph-view.tsx and are shared with it.                          *)

simpleHandleMouseMove(w, c, mouse) ==
    IF c.view.isPanning
    THEN [w EXCEPT !.view.pan = PAdd(@, PSub(mouse, c.view.panStart)),
                   !.view.panStart = mouse]
    ELSE IF c.view.dragging # None
    THEN LET newPos == PAdd(adjusted(mouse, c.view), c.view.dragOffset) IN
         [w EXCEPT !.view.nodes = MapSeq(w.view.nodes,
                                    LAMBDA node : IF node.id = c.view.dragging
                                                  THEN [node EXCEPT !.pos = newPos] ELSE node)]
    ELSE w

simpleHandleWheel(w, c, mouse, deltaY) ==
    LET zoomFactor == IF -deltaY > 0 THEN Rat(11, 10) ELSE Rat(9, 10)
        newZoom == RMax(Rat(1, 10), RMin(RInt(5), RMul(c.view.zoom, zoomFactor)))
        mouseGraph == adjusted(mouse, c.view)
        newPan == PSub(mouse, PScale(mouseGraph, newZoom))
    IN  [w EXCEPT !.view.zoom = newZoom, !.view.pan = newPan]

simpleHandleZoomIn(w) == [w EXCEPT !.view.zoom = RMin(RMul(@, Rat(12, 10)), RInt(5))]

simpleHandleZoomOut(w) == [w EXCEPT !.view.zoom = RMax(RDiv(@, Rat(12, 10)), Rat(1, 10))]

simpleHandleResetView(w) == [w EXCEPT !.view.zoom = RInt(1), !.view.pan = Origin]

-----------------------------------------------------------------------------
(* D3Graph (src/unnamed/part_000).  Its handlers are DOM listeners that    *)
(* work on refs and on the attributes of the SVG elements; the zoom is a   *)
(* d3.zoom() behaviour whose transform (k, p) lives on the svg element,    *)
(* while the g element carries the transform last applied by the zoom      *)
(* listener.  Transitions are taken at their end.                          *)

Transform(k, p) == [k |-> k, p |-> p]
zoomIdentity == Transform(RInt(1), Origin)

\* the container, and the width of a rendered one-letter label
Layout == [width |-> 800, height |-> 600, labelWidth |-> 7]

InitialD3View ==
    [mounted |-> FALSE,
     nodeObjectsRef |-> <<>>,
     dom |-> [id \in NodeIds |-> Null],          \* cx, cy of the circle of a node
     fill |-> [id \in NodeIds |-> None],         \* the fill attribute of the circle of a node
     contextMenuNode |-> None, showContextMenu |-> FALSE,   \* the .context-menu element
     selectedNode |-> None, isColorDialogOpen |-> FALSE,
     selectedGroup |-> None, groupColorDialogOpen |-> FALSE,
     customGroupColors |-> [g \in Groups |-> None],
     isDraggingRef |-> FALSE, currentNodeRef |-> None, transformRef |-> Null,
     zoomT |-> zoomIdentity,                       \* d3.zoomTransform(svg)
     gT |-> zoomIdentity,                          \* the transform attribute of g
     zoomLevel |-> RInt(1),
     panning |-> FALSE, grab |-> Origin,           \* the pan gesture of d3.zoom
     docMove |-> {}, docUp |-> {},                 \* the mousemove, mouseup listeners on document;
                                                   \* "handleMouseUp" is the one of the first render
     upIsFirst |-> TRUE,                           \* the effect holds the first handleMouseUp
     firstEdges |-> <<>>,                          \* the edges prop of the first render
     zoomFns |-> FALSE]                            \* window.d3ZoomFunctions is set

\* scale() of d3-zoom under scaleExtent([0.1, 4])
d3Scale(k) == RMax(Rat(1, 10), RMin(RInt(4), k))

\* the zoom listener: the transform reaches g only while no node is dragged
d3OnZoom(v, t) ==
    IF v.isDraggingRef THEN [v EXCEPT !.zoomT = t]
    ELSE [v EXCEPT !.zoomT = t, !.gT = t, !.zoomLevel = t.k]

\* zoom.scaleBy / the wheel gesture: scale about the screen point at
d3ScaleAbout(v, factor, at) ==
    LET k1 == d3Scale(RMul(v.zoomT.k, factor))
        world == PUnscale(PSub(at, v.zoomT.p), v.zoomT.k)
    IN  d3OnZoom(v, Transform(k1, PSub(at, PScale(world, k1))))

RECURSIVE RMinOf(_)
RMinOf(S) == LET a == CHOOSE x \in S : TRUE IN
             IF S = {a} THEN a ELSE RMin(a, RMinOf(S \ {a}))
RECURSIVE RMaxOf(_)
RMaxOf(S) == LET a == CHOOSE x \in S : TRUE IN
             IF S = {a} THEN a ELSE RMax(a, RMaxOf(S \ {a}))

nodeRadius == 8      \* nodeSizes under sizingMode "uniform"
labelDx == 15        \* the dx attribute of a label

\* g.node().getBBox(): the circles and their labels
BBox(x0, y0, x1, y1) == [x |-> x0, y |-> y0, width |-> RSub(x1, x0), height |-> RSub(y1, y0)]

getBBox(v) ==
    LET ids == {id \in NodeIds : v.dom[id] # Null}
    IN  BBox(RMinOf({RSub(v.dom[id].x, RInt(nodeRadius)) : id \in ids}),
             RMinOf({RSub(v.dom[id].y, RInt(nodeRadius)) : id \in ids}),
             RMaxOf({RAdd(v.dom[id].x, RInt(labelDx + Layout.labelWidth)) : id \in ids}),
             RMaxOf({RAdd(v.dom[id].y, RInt(nodeRadius)) : id \in ids}))

padding == 40
fullWidth == RInt(Layout.width - padding * 2)
fullHeight == RInt(Layout.height - padding * 2)

\* the scale and the translation fitToView computes from the bounding box
fitScale(bounds) ==
    RDiv(Rat(9, 10), RMax(RDiv(bounds.width, fullWidth), RDiv(bounds.height, fullHeight)))

fitTranslate(bounds, scale) ==
    Pt(RAdd(RSub(RDiv(RSub(fullWidth, RMul(bounds.width, scale)), RInt(2)), RMul(bounds.x, scale)),
            RInt(padding)),
       RAdd(RSub(RDiv(RSub(fullHeight, RMul(bounds.height, scale)), RInt(2)), RMul(bounds.y, scale)),
            RInt(padding)))

fitTransform(bounds, scale) == Transform(scale, fitTranslate(bounds, scale))

fitBounds(bounds) == fitTransform(bounds, fitScale(bounds))

\* zoom.transform sets the transform as given, outside the scale extent too
fitToView(v) == d3OnZoom(v, fitBounds(getBBox(v)))

createGraph(v, props, rnd) ==
    IF Len(props.nodes) = 0 THEN v
    ELSE LET nodeObjects == MapSeq(props.nodes,
                               LAMBDA node : IF node.pos # Null THEN node
                                             ELSE [node EXCEPT !.pos = rnd[node.id]])
             v1 == [v EXCEPT !.nodeObjectsRef = nodeObjects,
                             !.dom = [id \in NodeIds |->
                                        IF IndexOf(nodeObjects, id) = 0 THEN Null
                                        ELSE nodeObjects[IndexOf(nodeObjects, id)].pos],
                             !.fill = [id \in NodeIds |->
                                        IF IndexOf(props.nodes, id) = 0 THEN None
                                        ELSE d3CircleFill(props.nodes[IndexOf(props.nodes, id)],
                                                          props.nodes, v.customGroupColors)],
                             !.gT = zoomIdentity]
         IN  [fitToView(v1) EXCEPT !.zoomFns = TRUE]

\* the cleanup of the effect on createGraph, handleMouseMove, handleMouseUp
d3Cleanup(v) ==
    [v EXCEPT !.zoomFns = FALSE,
              !.docMove = removeListener(@, "handleMouseMove"),
              !.docUp = removeListener(@, IF v.upIsFirst THEN "handleMouseUp"
                                          ELSE "handleMouseUp of a later render")]

\* the teardown of a canvas: the cleanups of its effects
canvasUnmount(v) ==
    IF impl = "D3Graph" THEN [d3Cleanup(v) EXCEPT !.mounted = FALSE]
    ELSE [listenersCleanup(v) EXCEPT !.mounted = FALSE]

\* the effect itself, first at mount and then whenever createGraph changes
d3Effect(v, props, rnd) ==
    LET v1 == IF v.mounted THEN d3Cleanup(v)
              ELSE [v EXCEPT !.mounted = TRUE, !.firstEdges = props.edges]
    IN  [createGraph(v1, props, rnd) EXCEPT !.upIsFirst = props.stable]

d3HandleNodeMouseDown(w, nodeId) ==
    [w EXCEPT !.view.isDraggingRef = TRUE,
              !.view.currentNodeRef = nodeId,
              !.view.transformRef = w.view.zoomT,
              !.view.docMove = addListener(@, "handleMouseMove"),
              !.view.docUp = addListener(@, "handleMouseUp")]

d3HandleMouseMove(w, mouse) ==
    IF ~w.view.isDraggingRef \/ w.view.currentNodeRef = None THEN w
    ELSE LET transform == IF w.view.transformRef # Null THEN w.view.transformRef ELSE w.view.zoomT
             pos == PUnscale(PSub(mouse, transform.p), transform.k)
         IN  IF w.view.dom[w.view.currentNodeRef] = Null THEN w
             ELSE [w EXCEPT !.view.dom[w.view.currentNodeRef] = pos]

\* the handleMouseUp of the first render, the one handleNodeMouseDown registers
d3HandleMouseUp(w, c) ==
    LET cur == w.view.currentNodeRef
        off == [w EXCEPT !.view.docMove = removeListener(@, "handleMouseMove"),
                         !.view.docUp = removeListener(@, "handleMouseUp")]
    IN  IF ~w.view.isDraggingRef \/ cur = None THEN off
        ELSE LET nodeIndex == IndexOf(w.view.nodeObjectsRef, cur)
                 w1 == IF w.view.dom[cur] # Null /\ nodeIndex # 0
                       THEN LET moved == [w.view.nodeObjectsRef EXCEPT ![nodeIndex].pos = w.view.dom[cur]]
                            IN  onGraphUpdate([w EXCEPT !.view.nodeObjectsRef = moved],
                                              c, moved, w.view.firstEdges)
                       ELSE w
             IN  [w1 EXCEPT !.view.isDraggingRef = FALSE,
                            !.view.currentNodeRef = None,
                            !.view.transformRef = Null,
                            !.view.docMove = removeListener(@, "handleMouseMove"),
                            !.view.docUp = removeListener(@, "handleMouseUp")]

\* the filter of the zoom behaviour
d3Filter(v, button) == ~v.isDraggingRef /\ button = 0

\* the wheel gesture of d3.zoom: k * 2^(-deltaY * 0.002), for deltaY = -500 or 500
d3Wheel(w, mouse, deltaY) ==
    IF ~d3Filter(w.view, 0) THEN w
    ELSE [w EXCEPT !.view = d3ScaleAbout(@, IF deltaY < 0 THEN RInt(2) ELSE Rat(1, 2), mouse)]

\* the pan gesture of d3.zoom: the grabbed world point follows the pointer
d3PanStart(w, button, mouse) ==
    IF ~d3Filter(w.view, button) THEN w
    ELSE [w EXCEPT !.view.panning = TRUE,
                   !.view.grab = PUnscale(PSub(mouse, w.view.zoomT.p), w.view.zoomT.k)]

d3PanMove(w, mouse) ==
    IF ~w.view.panning THEN w
    ELSE [w EXCEPT !.view = d3OnZoom(@, Transform(@.zoomT.k, PSub(mouse, PScale(@.grab, @.zoomT.k))))]

d3PanEnd(w) == [w EXCEPT !.view.panning = FALSE]

viewportCentre == PInt(Layout.width \div 2, Layout.height \div 2)

d3ZoomIn(w) ==
    IF ~w.view.zoomFns THEN w
    ELSE [w EXCEPT !.view = d3ScaleAbout(@, Rat(15, 10), viewportCentre)]

d3ZoomOut(w) ==
    IF ~w.view.zoomFns THEN w
    ELSE [w EXCEPT !.view = d3ScaleAbout(@, Rat(667, 1000), viewportCentre)]

d3ResetZoom(w) ==
    IF ~w.view.zoomFns THEN w
    ELSE [w EXCEPT !.view = fitToView(@)]

\* the colour goes to the node object and to the fill of its circle
changeNodeColor(w, c, nodeId, color) ==
    IF Len(w.view.nodeObjectsRef) = 0 THEN w
    ELSE onGraphUpdate(
            [w EXCEPT !.view.nodeObjectsRef =
                          MapSeq(@, LAMBDA node : IF node.id = nodeId
                                                  THEN [node EXCEPT !.color = color] ELSE node),
                      !.view.fill[nodeId] = IF w.view.dom[nodeId] # Null THEN color ELSE @],
            c,
            MapSeq(w.view.nodeObjectsRef,
                   LAMBDA node : IF node.id = nodeId THEN [node EXCEPT !.color = color] ELSE node),
            Props(c.app).edges)

\* the colour goes to customGroupColors and to the fill of the circles of the
\* members without a color of their own
changeGroupColor(w, group, color) ==
    [w EXCEPT !.view.customGroupColors[group] = color,
              !.view.fill =
                  [id \in NodeIds |->
                      IF /\ IndexOf(w.view.nodeObjectsRef, id) # 0
                         /\ groupOf(w.view.nodeObjectsRef[IndexOf(w.view.nodeObjectsRef, id)]) = group
                         /\ w.view.nodeObjectsRef[IndexOf(w.view.nodeObjectsRef, id)].color = None
                         /\ w.view.dom[id] # Null
                      THEN color ELSE w.view.fill[id]]]

d3HandleApplyNodeColor(w, c, nodeColor) ==
    [(IF c.view.selectedNode # None THEN changeNodeColor(w, c, c.view.selectedNode, nodeColor) ELSE w)
        EXCEPT !.view.isColorDialogOpen = FALSE]

d3HandleApplyGroupColor(w, c, groupColor) ==
    [(IF c.view.selectedGroup # None THEN changeGroupColor(w, c.view.selectedGroup, groupColor) ELSE w)
        EXCEPT !.view.groupColorDialogOpen = FALSE]

-----------------------------------------------------------------------------
(* Rendering                                                               *)

World(a, v) == [app |-> a, view |-> v, emitted |-> <<>>]

\* the canvas is in the tree: line 1013-1035 of the visualization tab
canvasShown(a) ==
    \/ a.kind # "GraphVisualizer"
    \/ /\ a.activeTab = "visualization"
       /\ a.error = None
       /\ Len(a.graphData.nodes) > 0

canvasEffect(v, props, rnd) ==
    IF impl = "SimpleDragGraph" THEN simpleDragNodesEffect(v, props, rnd)
    ELSE IF impl = "D3Graph" THEN d3Effect(v, props, rnd)
    ELSE initialNodesEffect(v, props, rnd)

\* the canvas after its first render and effects
Mount(props, rnd) ==
    IF impl = "D3Graph" THEN d3Effect(InitialD3View, props, rnd)
    ELSE canvasEffect(MountedView, props, rnd)

\* one commit of the tree with its effects: the host's effect on graphData.nodes,
\* mounting or unmounting of the canvas, and the canvas's effects on its props
hostEffects(a) ==
    IF a.kind = "GraphVisualizer"
    THEN [a EXCEPT !.groupColorMap = groupColorMapEffect(@, a.graphData.nodes)]
    ELSE a

canvasCommit(v, a, props, rnd) ==
    IF ~canvasShown(a) THEN InitialView
    ELSE IF ~v.mounted THEN Mount(props, rnd)
    ELSE IF a # closure.app THEN canvasEffect(v, props, rnd)
    ELSE IF impl = "D3Graph" /\ v.customGroupColors # closure.view.customGroupColors
    THEN d3Effect(v, props, rnd)      \* createGraph depends on customGroupColors
    ELSE v

commitWith(w, a, rnd) == [w EXCEPT !.app = a, !.view = canvasCommit(w.view, a, Props(a), rnd)]

Flush(w, rnd) == commitWith(w, hostEffects(w.app), rnd)

-----------------------------------------------------------------------------
(* Inputs                                                                  *)

Bag(name, group) == [name |-> name, group |-> group]

\* (connections, properties) pairs typed into the two text areas
GenInputs ==
    { [connections |-> << "A", "-", ">", "B", ",", " ", "B", "-", ">", "C" >>,      \* A->B, B->C
       properties |-> JSONText(<< [id |-> "C", bag |-> Bag(None, "b")] >>)],
      [connections |-> << "A", "B", "\n", "A", "-", ">", "B", "[", "r", "e", "d", "]" >>,   \* AB / A->B[red]
       properties |-> Blank],
      [connections |-> << "A", "-", ">", "B" >>, properties |-> BadJSON],
      [connections |-> << "A", "B" >>, properties |-> BadJSON],
      [connections |-> <<>>, properties |-> Blank] }

\* the small example, at the size of the model: A->B, B->C with two groups
ExampleInputs ==
    { [connections |-> << "A", "-", ">", "B", ",", " ", "B", "-", ">", "C" >>,
       properties |-> JSONText(<< [id |-> "A", bag |-> Bag("Node A", "a")],
                                  [id |-> "B", bag |-> Bag("Node B", "a")],
                                  [id |-> "C", bag |-> Bag("Node C", "b")] >>)] }

FileNode(id, group, color, pos) ==
    [id |-> id, name |-> id,
     properties |-> IF group = None THEN Null ELSE Bag(None, group),
     color |-> color, pos |-> pos]

\* contents of the files offered to the import
ImportFiles ==
    { [json |-> TRUE, hasNodes |-> TRUE, hasLinks |-> TRUE, hasEdges |-> FALSE,
       nodes |-> << FileNode("A", None, None, PInt(10, 10)), FileNode("B", "b", None, PInt(50, 50)) >>,
       links |-> << [source |-> "A", target |-> "B", color |-> None] >>],
      [json |-> TRUE, hasNodes |-> FALSE, hasLinks |-> TRUE, hasEdges |-> FALSE,
       nodes |-> <<>>, links |-> <<>>],
      [json |-> FALSE, hasNodes |-> FALSE, hasLinks |-> FALSE, hasEdges |-> FALSE,
       nodes |-> <<>>, links |-> <<>>] }

\* files a faulty tool wrote: a link without its source next to a node with a
\* numeric property, and a node entry that is null
DamagedFiles ==
    { [json |-> TRUE, hasNodes |-> TRUE, hasLinks |-> TRUE, hasEdges |-> FALSE,
       nodes |-> << FileNode("A", None, None, PInt(10, 10)),
                    [FileNode("B", "b", None, PInt(50, 50)) EXCEPT !.properties.name = "7"] >>,
       links |-> << [source |-> None, target |-> "B", color |-> None] >>],
      [json |-> TRUE, hasNodes |-> TRUE, hasLinks |-> TRUE, hasEdges |-> FALSE,
       nodes |-> << FileNode("A", None, None, PInt(10, 10)), Null >>,
       links |-> <<>>] }

\* Math.random() placements of the nodes that have no position yet
RandomAssignments ==
    { [id \in NodeIds |-> CASE id = "A" -> PInt(100, 100) [] id = "B" -> PInt(394, 100) [] OTHER -> PInt(200, 300)],
      [id \in NodeIds |-> CASE id = "A" -> PInt(502, 200) [] id = "B" -> PInt(100, 400) [] OTHER -> PInt(600, 500)] }

Canvases == {"GraphView", "SimpleDragGraph", "D3Graph"}

HostNode(id, pos) == [id |-> id, label |-> id, properties |-> Null, color |-> None, pos |-> pos]

HostProps ==
    { [nodes |-> << HostNode("A", Null), HostNode("B", Null) >>,
       edges |-> << [from |-> "A", to |-> "B", color |-> None] >>],
      [nodes |-> << HostNode("A", PInt(100, 100)) >>, edges |-> <<>>] }

\* zoom levels the zoom buttons lead to: none pressed, zoom-in 9 times, zoom-out 13 times
StartZooms == {RInt(1), RInt(5), Rat(1, 10)}

MousePoints == {PInt(240, 120), PInt(90, 60)}     \* pointer positions in the container
HitOffsets == {PInt(0, 0), PInt(3, -2)}          \* node centre minus pointer, inside the circle
UserColors == {"#ff0000", "#00ff00"}

\* the props of a host whose nodes come in groups
GroupNode(id, group, pos) ==
    [id |-> id, label |-> id,
     properties |-> IF group = None THEN Null ELSE Bag(None, group),
     color |-> None, pos |-> pos]

ColourProps ==
    { [nodes |-> << GroupNode("A", None, PInt(100, 100)), GroupNode("B", "b", PInt(394, 100)),
                    GroupNode("C", "b", PInt(200, 300)) >>,
       edges |-> << [from |-> "A", to |-> "B", color |-> None] >>],
      [nodes |-> << GroupNode("B", "b", PInt(394, 100)), GroupNode("A", "a", PInt(100, 100)) >>,
       edges |-> <<>>] }

-----------------------------------------------------------------------------
(* Initial states                                                          *)

InitialApp ==
    [kind |-> "GraphVisualizer",
     graphData |-> [nodes |-> <<>>, links |-> <<>>],
     nodeConnections |-> <<>>, nodeProperties |-> Blank,     \* the two text areas
     activeTab |-> "input", error |-> None,
     hiddenGroups |-> {}, groupColorMap |-> [g \in Groups |-> None],
     fixedNode |-> None, zoom |-> RInt(1),
     plantUMLText |-> "", availableProperties |-> {},
     reader |-> Null]

InitialObs ==
    [event |-> "init",                      \* the last event
     updates |-> 0, last |-> Null,          \* onGraphUpdate notifications: their number, the last payload
     leftDown |-> FALSE,                    \* the left button is held
     drag |-> Null,                         \* the node-drag of the user: node, offset, target of the last move
     dragPos |-> [id \in NodeIds |-> Null], \* where the user last dragged each node of this canvas
     at |-> Origin,                         \* the pointer at the last wheel event
     pan |-> Null,                          \* the pan gesture of the user, while nothing but pointer-moves
                                            \* followed the press: the pointer at its last event
     download |-> Null,                     \* the graph-state.json the page last wrote
     exported |-> Null,                     \* ... and what the page showed when it wrote it
     nodeColour |-> [id \in NodeIds |-> None],  \* the colour the user last applied to each node
     groupColour |-> [g \in Groups |-> None],   \* ... and to each group
     ops |-> 0]

Init ==
    /\ impl = "GraphView"
    /\ app = InitialApp
    /\ view = InitialView
    /\ closure = [app |-> InitialApp, view |-> InitialView]
    /\ obs = InitialObs

-----------------------------------------------------------------------------
(* Events                                                                  *)

W == World(app, view)

\* the user events of a run are counted up to MaxOps, MaxCanvasOps
HasBudget ==
    obs.ops < (CASE app.kind = "Host" -> MaxCanvasOps
                 [] app.kind = "ColourHost" -> MaxColourOps
                 [] OTHER -> MaxOps)

\* what the host saw of an event that completes an earlier one
Complete(w, ev) ==
    [obs EXCEPT !.event = ev,
                !.updates = @ + Len(w.emitted),
                !.last = IF w.emitted # <<>> THEN w.emitted[Len(w.emitted)] ELSE @]

\* ... and of a new user event
Observe(w, ev) == [Complete(w, ev) EXCEPT !.ops = @ + 1]

\* the commit of a render: the handlers are bound again; what the user
\* dragged is forgotten with the canvas
Commit(w, o) ==
    /\ impl' = impl
    /\ app' = w.app
    /\ view' = w.view
    /\ closure' = [app |-> w.app, view |-> w.view]
    /\ obs' = IF w.view.mounted THEN o
              ELSE [o EXCEPT !.drag = Null, !.dragPos = [id \in NodeIds |-> Null]]

\* a discrete event: the handler's updates are rendered before the next event
Discrete(w, o) ==
    \E rnd \in RandomAssignments : Commit(Flush(w, rnd), o)

\* a continuous event: its updates wait for the Render task
Continuous(w, o) ==
    /\ impl' = impl
    /\ app' = w.app
    /\ view' = w.view
    /\ closure' = closure
    /\ obs' = o

\* a discrete user event, and a discrete event that completes an earlier one
UserEvent(w, ev) == Discrete(w, Observe(w, ev))
Completion(w, ev) == Discrete(w, Complete(w, ev))

Render ==
    /\ [app |-> app, view |-> view] # closure
    /\ Discrete(W, [obs EXCEPT !.event = "render"])

Shown == view.mounted /\ closure.view.mounted

\* a click on a control of the page needs the left button to be free
CanClick == ~obs.leftDown

Generate ==
    \E inp \in GenInputs :
        /\ CanClick /\ app.kind = "GraphVisualizer" /\ closure.app.activeTab = "input"
        /\ HasBudget
        /\ UserEvent(handleGenerateGraph([W EXCEPT !.app.nodeConnections = inp.connections,
                                                    !.app.nodeProperties = inp.properties]),
                     "generate")

ExampleApply ==
    \E example \in ExampleInputs :
        /\ CanClick /\ app.kind = "GraphVisualizer" /\ closure.app.activeTab = "input"
        /\ HasBudget
        /\ UserEvent(handleExampleDataApply(W, example.connections, example.properties), "example")

SwitchTab ==
    \E tab \in {"input", "visualization"} :
        /\ CanClick /\ app.kind = "GraphVisualizer" /\ closure.app.activeTab # tab
        /\ HasBudget
        /\ UserEvent([W EXCEPT !.app.activeTab = tab], "tab")

\* the files the user can pick: those at hand and the one the page wrote
Downloads == IF obs.download = Null THEN {} ELSE {fileOf(obs.download)}

ImportClick ==
    \E file \in ImportFiles \cup Downloads :
        /\ CanClick /\ app.kind = "GraphVisualizer" /\ app.reader = Null
        /\ closure.app.activeTab = "input" \/ Shown
        /\ HasBudget
        /\ UserEvent([W EXCEPT !.app.reader = file], "import-click")

ImportClickDamaged ==
    \E file \in DamagedFiles :
        /\ CanClick /\ app.kind = "GraphVisualizer" /\ app.reader = Null
        /\ closure.app.activeTab = "input" \/ Shown
        /\ HasBudget
        /\ UserEvent([W EXCEPT !.app.reader = file], "import-click")

ImportLoad ==
    /\ app.kind = "GraphVisualizer" /\ app.reader # Null
    /\ Completion([importOnload(W, app.reader) EXCEPT !.app.reader = Null], "import-load")

\* what the page shows of its document: every node with the colour and the
\* position it is drawn with, the links, the colours of the groups
Observable(a, v) ==
    [nodes |-> MapSeq(visibleNodes(a),
                      LAMBDA node : [id |-> node.id, name |-> node.name, properties |-> node.properties,
                                     color |-> node.color,
                                     pos |-> IF v.mounted /\ IndexOf(v.nodes, node.id) # 0
                                             THEN v.nodes[IndexOf(v.nodes, node.id)].pos
                                             ELSE node.pos]),
     links |-> visibleEdges(a),
     groupColors |-> [g \in groupsIn(a.graphData.nodes) |-> a.groupColorMap[g]]]

Exported(w, state) ==
    Discrete(w, [Observe(w, "export") EXCEPT
                    !.download = IF state # Null THEN state ELSE @,
                    !.exported = IF state # Null THEN Observable(closure.app, closure.view) ELSE @])

\* Export Graph as JSON, in the sidebar of the canvas
ExportGraph ==
    /\ CanClick /\ app.kind = "GraphVisualizer" /\ Shown /\ HasBudget
    /\ Exported(W, handleExportGraph(closure.app))

ToggleGroup ==
    \E group \in groupsIn(closure.app.graphData.nodes) :
        /\ CanClick /\ app.kind = "GraphVisualizer" /\ Shown
        /\ HasBudget
        /\ UserEvent(toggleGroupVisibility(W, group), "toggle-group")

ShowAll ==
    /\ CanClick /\ app.kind = "GraphVisualizer" /\ Shown
    /\ HasBudget
    /\ UserEvent(showAllGroups(W), "show-all")

HideAll ==
    /\ CanClick /\ app.kind = "GraphVisualizer" /\ Shown
    /\ HasBudget
    /\ UserEvent(hideAllGroups(W, closure), "hide-all")

\* the nodes drawn by the last render
Rendered ==
    IF impl = "D3Graph" THEN {id \in NodeIds : closure.view.dom[id] # Null}
    ELSE {closure.view.nodes[i].id : i \in {j \in 1..Len(closure.view.nodes) : closure.view.nodes[j].pos # Null}}

RenderedPos(id) ==
    IF impl = "D3Graph" THEN closure.view.dom[id]
    ELSE closure.view.nodes[IndexOf(closure.view.nodes, id)].pos

\* the transform of the last render
RenderedTransform ==
    IF impl = "D3Graph" THEN closure.view.gT
    ELSE Transform(closure.view.zoom, closure.view.pan)

\* world -> screen and screen -> world with the transform of the last render
toScreen(p) == PAdd(PScale(p, RenderedTransform.k), RenderedTransform.p)
toWorld(mouse) == PUnscale(PSub(mouse, RenderedTransform.p), RenderedTransform.k)

\* the current transform is within the precision of the model
Precise ==
    LET t == IF impl = "D3Graph" THEN view.zoomT ELSE Transform(view.zoom, view.pan)
        pts == IF impl = "D3Graph" THEN {view.dom[id] : id \in {i \in NodeIds : view.dom[i] # Null}} ELSE {}
    IN  /\ t.k.d <= MaxDenominator /\ t.p.x.d <= MaxDenominator /\ t.p.y.d <= MaxDenominator
        /\ \A q \in pts : q.x.d <= MaxDenominator /\ q.y.d <= MaxDenominator

\* the state of the pointer controller
ControllerState(v) ==
    IF impl = "D3Graph"
    THEN IF v.isDraggingRef THEN "DraggingNode" ELSE IF v.panning THEN "PanningCanvas" ELSE "Idle"
    ELSE IF v.dragging # None THEN "DraggingNode" ELSE IF v.isPanning THEN "PanningCanvas" ELSE "Idle"

\* the mousedown handler of a node, of the background
onNodeMouseDown(nodeId, mouse) ==
    IF impl = "D3Graph" THEN d3HandleNodeMouseDown(W, nodeId)
    ELSE handleNodeMouseDown(W, closure, nodeId, mouse)

\* the mousedown of the right button on a node: the circle of GraphView and
\* SimpleDragGraph takes the left button only and lets the event reach the
\* background; the circle of D3Graph takes every button
onNodeRightDown(nodeId, mouse) ==
    IF impl = "D3Graph" THEN d3HandleNodeMouseDown(W, nodeId)
    ELSE handleSvgMouseDown(W, 2, mouse)

onSvgMouseDown(button, mouse) ==
    IF impl = "D3Graph" THEN d3PanStart(W, button, mouse)
    ELSE handleSvgMouseDown(W, button, mouse)

\* the mousemove, mouseup listeners that are registered
onMouseMove(mouse) ==
    CASE impl = "D3Graph" -> d3PanMove(IF view.docMove # {} THEN d3HandleMouseMove(W, mouse) ELSE W, mouse)
      [] impl = "SimpleDragGraph" -> simpleHandleMouseMove(W, closure, mouse)
      [] OTHER -> handleMouseMove(W, closure, mouse)

onMouseUp ==
    IF impl = "D3Graph"
    THEN d3PanEnd(IF view.docUp # {} THEN d3HandleMouseUp(W, closure) ELSE W)
    ELSE handleMouseUp(W, closure)

onWheel(mouse, deltaY) ==
    CASE impl = "D3Graph" -> d3Wheel(W, mouse, deltaY)
      [] impl = "SimpleDragGraph" -> simpleHandleWheel(W, closure, mouse, deltaY)
      [] OTHER -> handleWheel(W, closure, mouse, deltaY)

\* the handlers run synchronously in D3Graph, which keeps no React state for them
Dispatch(w, o) == IF impl = "D3Graph" THEN Discrete(w, o) ELSE Continuous(w, o)

NodeDown(w, nodeId, off) ==
    Discrete(w, [Observe(w, "node-down") EXCEPT
                    !.leftDown = TRUE,
                    !.drag = [node |-> nodeId, offset |-> off, target |-> Null]])

\* a dialog is modal: while it is open the canvas and the legend take no clicks
DialogOpen ==
    impl # "GraphView" /\ (closure.view.isColorDialogOpen \/ closure.view.groupColorDialogOpen)

NodeMouseDown ==
    \E nodeId \in Rendered, off \in HitOffsets :
        /\ Shown /\ ~obs.leftDown /\ ~DialogOpen /\ HasBudget
        /\ NodeDown(onNodeMouseDown(nodeId, toScreen(PSub(RenderedPos(nodeId), off))), nodeId, off)

SvgDown(w, button, mouse) ==
    Discrete(w, [Observe(w, "svg-down") EXCEPT
                    !.leftDown = @ \/ button = 0,
                    !.pan = IF button = 0 THEN [prev |-> mouse] ELSE @])

SvgMouseDown ==
    \E button \in {0, 2}, mouse \in MousePoints :
        /\ Shown /\ HasBudget
        /\ button = 0 => ~obs.leftDown
        /\ SvgDown(onSvgMouseDown(button, mouse), button, mouse)

\* target: where the pointer takes the dragged node, its world position under the
\* transform on screen plus the offset of the press
Moved(w, mouse, target) ==
    Dispatch(w, IF obs.drag # Null
                THEN [Observe(w, "move") EXCEPT !.drag.target = target,
                                                !.dragPos[obs.drag.node] = target]
                ELSE IF obs.pan # Null THEN [Observe(w, "move") EXCEPT !.pan.prev = mouse]
                ELSE Observe(w, "move"))

MouseMove ==
    \E mouse \in MousePoints :
        /\ Shown /\ HasBudget
        /\ Moved(onMouseMove(mouse), mouse, PAdd(toWorld(mouse), obs.drag.offset))

Released(w, button) ==
    Discrete(w, [Complete(w, "up") EXCEPT
                    !.leftDown = IF button = 0 THEN FALSE ELSE @,
                    !.drag = Null,
                    !.pan = Null])

MouseUp ==
    \E button \in {0, 2} :
        /\ Shown
        /\ button = 0 => obs.leftDown
        /\ Released(onMouseUp, button)

NodeRightClick ==
    \E nodeId \in Rendered :
        /\ Shown /\ ~DialogOpen /\ HasBudget
        /\ UserEvent(handleNodeRightClick(onNodeRightDown(nodeId, toScreen(RenderedPos(nodeId))), nodeId),
                     "context-menu")

ClickOutside ==
    /\ Shown /\ CanClick /\ closure.view.showContextMenu /\ HasBudget
    /\ UserEvent(handleClickOutside(W), "click-outside")

MenuOpen == Shown /\ CanClick /\ closure.view.showContextMenu /\ closure.view.contextMenuNode # None

Deleted(w, nodeId) ==
    Discrete(w, [Observe(w, "delete") EXCEPT !.dragPos[nodeId] = Null])

DeleteNode ==
    /\ MenuOpen /\ HasBudget
    /\ Deleted(handleClickOutside(handleDeleteNode(W, closure, closure.view.contextMenuNode)),
               closure.view.contextMenuNode)

\* Fix Node Info, in the context menu of the canvas of the page
FixNode ==
    /\ MenuOpen /\ app.kind = "GraphVisualizer" /\ HasBudget
    /\ UserEvent(handleClickOutside(handleFixNodeInfo(W, closure.view.contextMenuNode)), "fix-node")

\* Release Fixed Node, in the sidebar of the canvas
ReleaseFixedNode ==
    /\ CanClick /\ app.kind = "GraphVisualizer" /\ Shown /\ closure.app.fixedNode # None
    /\ HasBudget
    /\ UserEvent([W EXCEPT !.app.fixedNode = None], "release-fixed")

OpenColorDialog ==
    /\ MenuOpen /\ HasBudget
    /\ UserEvent(handleClickOutside(handleOpenColorDialog(W, closure)), "color-dialog")

Recoloured(w, nodeId, colour) ==
    Discrete(w, [Observe(w, "apply-node-color") EXCEPT !.nodeColour[nodeId] = colour])

\* Apply Color in the node dialog of SimpleDragGraph and D3Graph, with the
\* colour the user picked in it
ApplyNodeColor ==
    \E colour \in UserColors :
        /\ Shown /\ CanClick /\ impl # "GraphView" /\ HasBudget
        /\ closure.view.isColorDialogOpen /\ closure.view.selectedNode # None
        /\ Recoloured(IF impl = "D3Graph" THEN d3HandleApplyNodeColor(W, closure, colour)
                      ELSE handleApplyNodeColor(W, closure, colour),
                      closure.view.selectedNode, colour)

\* the legend, shown when there is more than one group
Legend ==
    LET gs == groups(IF impl = "D3Graph" THEN Props(closure.app).nodes ELSE closure.view.nodes)
    IN  IF Len(gs) > 1 THEN {gs[i] : i \in 1..Len(gs)} ELSE {}

OpenGroupColorDialog ==
    \E group \in Legend :
        /\ Shown /\ CanClick /\ impl # "GraphView" /\ ~DialogOpen /\ HasBudget
        /\ UserEvent(handleClickOutside(handleOpenGroupColorDialog(W, group)), "group-color-dialog")

GroupRecoloured(w, group, colour) ==
    Discrete(w, [Observe(w, "apply-group-color") EXCEPT !.groupColour[group] = colour])

\* Apply Color in the group dialog
ApplyGroupColor ==
    \E colour \in UserColors :
        /\ Shown /\ CanClick /\ impl # "GraphView" /\ HasBudget
        /\ closure.view.groupColorDialogOpen /\ closure.view.selectedGroup # None
        /\ GroupRecoloured(IF impl = "D3Graph" THEN d3HandleApplyGroupColor(W, closure, colour)
                           ELSE handleApplyGroupColor(W, closure, colour),
                           closure.view.selectedGroup, colour)

\* the host renders the canvas again, with new arrays as props; keep: the
\* edges array and the onGraphUpdate function are still those of the first render
HostRender ==
    \E props \in HostProps, keep \in BOOLEAN :
        /\ app.kind = "Host" /\ view.mounted /\ HasBudget
        /\ keep => props.edges = app.props.edges
        /\ Discrete([W EXCEPT !.app.props = [nodes |-> props.nodes, edges |-> props.edges,
                                             stable |-> app.props.stable /\ keep],
                              !.app.tick = ~@],
                    [Observe(W, "host-render") EXCEPT !.pan = Null])

Wheeled(w, mouse) == Dispatch(w, [Observe(w, "wheel") EXCEPT !.at = mouse, !.pan = Null])

Wheel ==
    \E mouse \in MousePoints, deltaY \in {-500, 500} :
        /\ Shown /\ HasBudget /\ Precise
        /\ Wheeled(onWheel(mouse, deltaY), mouse)

ZoomIn ==
    /\ Shown /\ CanClick /\ HasBudget /\ Precise
    /\ UserEvent(CASE impl = "D3Graph" -> d3ZoomIn(W)
                   [] impl = "SimpleDragGraph" -> simpleHandleZoomIn(W)
                   [] OTHER -> handleZoomIn(W),
                 "zoom-in")

ZoomOut ==
    /\ Shown /\ CanClick /\ HasBudget /\ Precise
    /\ UserEvent(CASE impl = "D3Graph" -> d3ZoomOut(W)
                   [] impl = "SimpleDragGraph" -> simpleHandleZoomOut(W)
                   [] OTHER -> handleZoomOut(W),
                 "zoom-out")

ResetZoom ==
    /\ Shown /\ CanClick /\ HasBudget /\ Precise
    /\ UserEvent(CASE impl = "D3Graph" -> d3ResetZoom(W)
                   [] impl = "SimpleDragGraph" -> simpleHandleResetView(W)
                   [] OTHER -> handleResetZoom(W),
                 "reset-zoom")

Next ==
    \/ Generate \/ SwitchTab \/ ImportClick \/ ImportLoad
    \/ ToggleGroup \/ ShowAll \/ HideAll
    \/ NodeMouseDown \/ SvgMouseDown \/ MouseMove \/ MouseUp \/ Render
    \/ NodeRightClick \/ ClickOutside \/ DeleteNode \/ OpenColorDialog

Spec == Init /\ [][Next]_vars

\* the page with its export and import
NextFile ==
    \/ Generate \/ ExportGraph \/ ImportClick \/ ImportLoad
    \/ NodeMouseDown \/ MouseMove \/ MouseUp \/ Render

SpecFile == Init /\ [][NextFile]_vars

\* the page with every way to load a document
NextLoad ==
    \/ Generate \/ ExampleApply \/ SwitchTab \/ ImportClick \/ ImportLoad
    \/ NodeMouseDown \/ MouseMove \/ MouseUp \/ Render

SpecLoad == Init /\ [][NextLoad]_vars

\* the page with its fixed node: every way to load a document, the context
\* menu; each of these events is rendered at once
NextPin ==
    \/ Generate \/ ExampleApply \/ SwitchTab \/ ImportClick \/ ImportLoad
    \/ NodeRightClick \/ ClickOutside \/ FixNode \/ ReleaseFixedNode \/ DeleteNode

SpecPin == Init /\ [][NextPin]_vars

\* the page with its PlantUML text: every way to set the document, files of
\* every kind
NextText ==
    \/ Generate \/ ExampleApply \/ SwitchTab \/ ImportClick \/ ImportClickDamaged \/ ImportLoad
    \/ NodeMouseDown \/ MouseMove \/ MouseUp \/ NodeRightClick \/ DeleteNode \/ Render

SpecText == Init /\ [][NextText]_vars

-----------------------------------------------------------------------------
(* A canvas on its own, under a host that passes props and records the     *)
(* notifications                                                           *)

InitCanvas ==
    \E i \in Canvases, props \in HostProps, rnd \in RandomAssignments, z \in StartZooms :
        LET a == [kind |-> "Host",
                  props |-> [nodes |-> props.nodes, edges |-> props.edges, stable |-> TRUE],
                  tick |-> FALSE]
            m == IF i = "D3Graph" THEN d3Effect(InitialD3View, a.props, rnd)
                 ELSE IF i = "SimpleDragGraph"
                      THEN simpleDragNodesEffect([MountedView EXCEPT !.zoom = z], a.props, rnd)
                 ELSE initialNodesEffect([MountedView EXCEPT !.zoom = z], a.props, rnd)
        IN  /\ impl = i
            /\ app = a
            /\ view = m
            /\ closure = [app |-> a, view |-> m]
            /\ obs = InitialObs

NextCanvas ==
    \/ HostRender
    \/ NodeMouseDown \/ SvgMouseDown \/ MouseMove \/ MouseUp \/ Render
    \/ Wheel \/ ZoomIn \/ ZoomOut \/ ResetZoom

SpecCanvas == InitCanvas /\ [][NextCanvas]_vars

\* the host takes the canvas out of the tree
Unmount ==
    /\ app.kind = "Host" /\ view.mounted /\ HasBudget
    /\ Commit([app |-> app, view |-> canvasUnmount(view)], Observe(W, "unmount"))

\* a canvas with a host that renders it again and tears it down at any time
NextTeardown ==
    \/ HostRender \/ Unmount
    \/ NodeMouseDown \/ SvgMouseDown \/ MouseMove \/ MouseUp \/ Render

SpecTeardown == InitCanvas /\ [][NextTeardown]_vars

\* a canvas under the presses of both buttons on nodes and on the background
NextPointer ==
    \/ NodeMouseDown \/ NodeRightClick \/ SvgMouseDown
    \/ MouseMove \/ MouseUp \/ ClickOutside \/ Render

SpecPointer == InitCanvas /\ [][NextPointer]_vars

-----------------------------------------------------------------------------
(* A canvas with its colour dialogs, under a host that passes nodes in     *)
(* groups and records the notifications                                    *)

InitColour ==
    \E i \in Canvases, props \in ColourProps, rnd \in RandomAssignments :
        LET a == [kind |-> "ColourHost",
                  props |-> [nodes |-> props.nodes, edges |-> props.edges, stable |-> TRUE],
                  tick |-> FALSE]
            m == IF i = "D3Graph" THEN d3Effect(InitialD3View, a.props, rnd)
                 ELSE IF i = "SimpleDragGraph"
                      THEN simpleDragNodesEffect(MountedView, a.props, rnd)
                 ELSE initialNodesEffect(MountedView, a.props, rnd)
        IN  /\ impl = i
            /\ app = a
            /\ view = m
            /\ closure = [app |-> a, view |-> m]
            /\ obs = InitialObs

NextColour ==
    \/ NodeRightClick \/ ClickOutside \/ OpenColorDialog \/ ApplyNodeColor
    \/ OpenGroupColorDialog \/ ApplyGroupColor
    \/ NodeMouseDown \/ MouseMove \/ MouseUp \/ Render

SpecColour == InitColour /\ [][NextColour]_vars

-----------------------------------------------------------------------------
(* The radius of the circles: getNodeSize of GraphView and SimpleDragGraph, *)
(* nodeSizes of D3Graph.  A numeric property is a rational, Null when the   *)
(* node does not define it.                                                 *)

MaxNat(S) == CHOOSE x \in S : \A y \in S : y <= x

\* edges.filter((edge) => edge.to === id).length, and the same with from
incomingCount(edges, id) == Cardinality({k \in 1..Len(edges) : edges[k].to = id})
outgoingCount(edges, id) == Cardinality({k \in 1..Len(edges) : edges[k].from = id})

\* Math.max(1, ...nodes.map(...))
maxIncoming(nodes, edges) == MaxNat({1} \cup {incomingCount(edges, nodes[i].id) : i \in 1..Len(nodes)})
maxOutgoing(nodes, edges) == MaxNat({1} \cup {outgoingCount(edges, nodes[i].id) : i \in 1..Len(nodes)})

\* 5 + (count / max) * 15
degreeSize(count, max) == RAdd(RInt(5), RMul(Rat(count, max), RInt(15)))

\* the values of the property over the nodes that define it
propertyValues(nodes, property) ==
    {nodes[i].properties[property] : i \in {k \in 1..Len(nodes) : nodes[k].properties[property] # Null}}

\* a scale that divides by the maximum, not by the range
propertySizeByMax(value, min, max) ==
    RAdd(RInt(4), RMul(RDiv(RSub(value, min), max), RInt(16)))

\* 4 + ((value - min) / (max - min)) * 16
propertySize(value, min, max) ==
    RAdd(RInt(4), RMul(RDiv(RSub(value, min), RSub(max, min)), RInt(16)))

\* GraphView
getNodeSize(nodes, edges, node, nodeSizingMode, nodeSizingProperty) ==
    IF nodeSizingMode = "uniform" THEN RInt(8)
    ELSE IF nodeSizingMode = "provided" /\ node.properties.size # Null
    THEN RMax(RInt(4), RMin(RInt(20), node.properties.size))
    ELSE IF nodeSizingMode = "property" /\ nodeSizingProperty # None
            /\ node.properties[nodeSizingProperty] # Null
    THEN IF RMinOf(propertyValues(nodes, nodeSizingProperty)) = RMaxOf(propertyValues(nodes, nodeSizingProperty))
         THEN RInt(8)
         ELSE propertySize(node.properties[nodeSizingProperty],
                           RMinOf(propertyValues(nodes, nodeSizingProperty)),
                           RMaxOf(propertyValues(nodes, nodeSizingProperty)))
    ELSE IF nodeSizingMode = "incoming"
    THEN degreeSize(incomingCount(edges, node.id), maxIncoming(nodes, edges))
    ELSE IF nodeSizingMode = "outgoing"
    THEN degreeSize(outgoingCount(edges, node.id), maxOutgoing(nodes, edges))
    ELSE RInt(8)

\* SimpleDragGraph: no sizing by property
simpleGetNodeSize(nodes, edges, node, nodeSizingMode) ==
    IF nodeSizingMode = "uniform" THEN RInt(8)
    ELSE IF nodeSizingMode = "provided" /\ node.properties.size # Null
    THEN RMax(RInt(4), RMin(RInt(20), node.properties.size))
    ELSE IF nodeSizingMode = "incoming"
    THEN degreeSize(incomingCount(edges, node.id), maxIncoming(nodes, edges))
    ELSE IF nodeSizingMode = "outgoing"
    THEN degreeSize(outgoingCount(edges, node.id), maxOutgoing(nodes, edges))
    ELSE RInt(8)

\* D3Graph: the counts are kept per id, the ids of the nodes and every id an
\* edge names; the maximum is over all of them (Object.values)
countedIds(nodes, edges) ==
    IdsOf(nodes) \cup {edges[k].from : k \in 1..Len(edges)} \cup {edges[k].to : k \in 1..Len(edges)}

nodeSizes(nodes, edges, sizingMode) ==
    IF sizingMode = "uniform" THEN [i \in 1..Len(nodes) |-> RInt(nodeRadius)]
    ELSE IF sizingMode = "incoming"
    THEN [i \in 1..Len(nodes) |->
            degreeSize(incomingCount(edges, nodes[i].id),
                       MaxNat({1} \cup {incomingCount(edges, id) : id \in countedIds(nodes, edges)}))]
    ELSE [i \in 1..Len(nodes) |->
            degreeSize(outgoingCount(edges, nodes[i].id),
                       MaxNat({1} \cup {outgoingCount(edges, id) : id \in countedIds(nodes, edges)}))]

\* the radius of every circle a canvas draws
radii(canvas, nodes, edges, mode, property) ==
    IF canvas = "D3Graph" THEN nodeSizes(nodes, edges, mode)
    ELSE IF canvas = "SimpleDragGraph"
    THEN [i \in 1..Len(nodes) |-> simpleGetNodeSize(nodes, edges, nodes[i], mode)]
    ELSE [i \in 1..Len(nodes) |-> getNodeSize(nodes, edges, nodes[i], mode, property)]

\* the sizing modes a canvas takes
SizingModes(canvas) ==
    IF canvas = "D3Graph" THEN {"uniform", "incoming", "outgoing"}
    ELSE IF canvas = "SimpleDragGraph" THEN {"uniform", "incoming", "outgoing", "provided"}
    ELSE {"uniform", "incoming", "outgoing", "provided", "property"}

SizedNode(id, size, value) ==
    [id |-> id, name |-> id, properties |-> [size |-> size, value |-> value],
     color |-> None, pos |-> Null]

SizeValues == {Null, RInt(2), RInt(3), RInt(5)}

\* up to three nodes, A with a size of its own, each with or without the numeric property
SizedNodes ==
    { SubSeq(<< SizedNode("A", RInt(30), a), SizedNode("B", Null, b), SizedNode("C", Null, c) >>, 1, n) :
        n \in 1..3, a \in SizeValues, b \in SizeValues, c \in SizeValues }

\* the edges a host may pass: between the nodes, twice the same, and to an id that is no node
CandidateEdges ==
    << [from |-> "A", to |-> "B", color |-> None], [from |-> "A", to |-> "B", color |-> None],
       [from |-> "B", to |-> "A", color |-> None], [from |-> "A", to |-> "X", color |-> None],
       [from |-> "B", to |-> "X", color |-> None] >>

PickEdges(chosen) ==
    LET RECURSIVE pick(_)
        pick(k) == IF k > Len(CandidateEdges) THEN <<>>
                   ELSE (IF k \in chosen THEN << CandidateEdges[k] >> ELSE <<>>) \o pick(k + 1)
    IN  pick(1)

InitSize ==
    \E canvas \in Canvases, nodes \in SizedNodes, chosen \in SUBSET (1..Len(CandidateEdges)) :
        \E mode \in SizingModes(canvas) :
            /\ impl = canvas
            /\ app = [kind |-> "SizeHost",
                      props |-> [nodes |-> nodes, edges |-> PickEdges(chosen)],
                      nodeSizingMode |-> mode,
                      nodeSizingProperty |-> IF mode = "property" THEN "value" ELSE None]
            /\ view = [mounted |-> FALSE, sizes |-> Null]
            /\ closure = [app |-> app, view |-> view]
            /\ obs = InitialObs

\* the canvas renders its circles
RenderSizes ==
    /\ app.kind = "SizeHost" /\ ~view.mounted
    /\ view' = [mounted |-> TRUE,
                sizes |-> radii(impl, app.props.nodes, app.props.edges,
                                app.nodeSizingMode, app.nodeSizingProperty)]
    /\ closure' = [app |-> app, view |-> view']
    /\ obs' = [obs EXCEPT !.event = "render"]
    /\ UNCHANGED <<impl, app>>

NextSize == RenderSizes

SpecSize == InitSize /\ [][NextSize]_vars

-----------------------------------------------------------------------------
(* parseGraphData on its own: a caller holds the two texts and calls it    *)

\* connections a user may write, with and without arrow, colour and target
TokenTexts ==
    { << "A", "-", ">", "B" >>,
      << "B", "=", ">", "C", "[", "r", "]" >>,
      << "C", "-", "A" >>,
      << "A", "endash", "D" >>,
      << "A", "B" >>,
      << "B", "-", ">" >> }

\* what a user may put between two connections
SeparatorTexts == { << "," >>, << ";" >>, << "\n" >>, << " " >>, << ",", " " >> }

ParserProperties ==
    { Blank,
      JSONText(<< [id |-> "C", bag |-> Bag("Node C", "b")] >>),
      JSONText(<< [id |-> "B", bag |-> Bag(None, "a")],
                  [id |-> "E", bag |-> Bag(None, "b")],
                  [id |-> "A", bag |-> Bag("Node A", None)] >>) }

\* the text of the tokens with the separators between them
RECURSIVE joinWith(_, _)
joinWith(tokens, separators) ==
    IF tokens = <<>> THEN <<>>
    ELSE IF Len(tokens) = 1 THEN tokens[1]
    ELSE tokens[1] \o separators[1] \o joinWith(Tail(tokens), Tail(separators))

InitParser ==
    \E n \in 0..MaxTokens :
        \E tokens \in [1..n -> TokenTexts],
           separators \in [1..(IF n = 0 THEN 0 ELSE n - 1) -> SeparatorTexts],
           propertiesText \in ParserProperties :
            /\ impl = "parseGraphData"
            /\ app = [kind |-> "Parser", tokens |-> tokens, separators |-> separators,
                      connectionsText |-> joinWith(tokens, separators),
                      propertiesText |-> propertiesText]
            /\ view = [mounted |-> FALSE, result |-> Null]
            /\ closure = [app |-> app, view |-> view]
            /\ obs = InitialObs

\* the call
Parse ==
    /\ app.kind = "Parser" /\ view.result = Null
    /\ view' = [view EXCEPT !.result = parseGraphData(app.connectionsText, app.propertiesText)]
    /\ obs' = [obs EXCEPT !.event = "parse"]
    /\ UNCHANGED <<impl, app, closure>>

NextParser == Parse

SpecParser == InitParser /\ [][NextParser]_vars

-----------------------------------------------------------------------------
(* exportToPlantUML on documents of its own                                  *)

MaxExportNodes == 2
MaxExportLinks == 2
MaxCalls == 2

ExportNode(id, name, properties, color) ==
    [id |-> id, name |-> name, properties |-> properties, color |-> color]

ExportNodes ==
    { ExportNode(<< "A" >>, <<>>, Null, <<>>),
      ExportNode(<< "A", " ", "B" >>, << "N", "1" >>, [type |-> "source"], <<>>),
      ExportNode(<< "a", "-", "1", ".", "x" >>, <<>>, [type |-> "other"], << "#", "f", "0", "0" >>),
      ExportNode(<< "A", "_", "B" >>, << "A", " ", "B" >>, [type |-> None], << "r", "e", "d" >>),
      ExportNode(<< "B" >>, <<>>, [type |-> "sink"], <<>>) }

\* an end of a link: the id, or the node object a layout put in its place
EndId(id) == [object |-> FALSE, id |-> id]
EndNode(id) == [object |-> TRUE, id |-> id]

ExportLinks ==
    { [source |-> EndId(<< "A" >>), target |-> EndId(<< "A", " ", "B" >>), color |-> <<>>],
      [source |-> EndNode(<< "A", " ", "B" >>), target |-> EndNode(<< "a", "-", "1", ".", "x" >>),
       color |-> << "#", "0", "f", "0" >>],
      [source |-> EndId(<< "a", "-", "1", ".", "x" >>), target |-> EndId(<< "Z", "?" >>), color |-> <<>>],
      [source |-> EndNode(<< "B" >>), target |-> EndId(<< "A" >>), color |-> <<>>] }

InitExport ==
    \E n \in 0..MaxExportNodes, m \in 0..MaxExportLinks :
        \E nodes \in [1..n -> ExportNodes], links \in [1..m -> ExportLinks] :
            /\ impl = "exportToPlantUML"
            /\ app = [kind |-> "Exporter", graphData |-> [nodes |-> nodes, links |-> links]]
            /\ view = [mounted |-> FALSE, texts |-> <<>>]
            /\ closure = [app |-> app, view |-> view]
            /\ obs = InitialObs

\* a call on the document the caller holds
Export ==
    /\ app.kind = "Exporter" /\ Len(view.texts) < MaxCalls
    /\ LET call == exportCall(app.graphData)
       IN  /\ app' = [app EXCEPT !.graphData = call.graphData]
           /\ view' = [view EXCEPT !.texts = Append(@, call.text)]
    /\ obs' = [obs EXCEPT !.event = "export"]
    /\ UNCHANGED <<impl, closure>>

NextExport == Export

SpecExport == InitExport /\ [][NextExport]_vars

-----------------------------------------------------------------------------
(* The lines and circles a canvas draws for the nodes it holds and the edges *)
(* it receives. A position that is not a number (undefined, or a string of   *)
(* an imported file) is Null. The line of GraphView ends on the two circles; *)
(* it is kept here by the two centres it joins.                              *)

\* typeof x === "number" && !isNaN(x), for both coordinates
validPosition(pos) == pos # Null

\* nodes.find((n) => n.id === id)
find(nodes, id) == IF IndexOf(nodes, id) = 0 THEN Null ELSE nodes[IndexOf(nodes, id)]

\* graph-view.tsx: null for a position that is no number and for distance === 0
calculateEdgeEndpoints(source, target) ==
    IF ~validPosition(source.pos) \/ ~validPosition(target.pos) THEN Null
    ELSE IF source.pos = target.pos THEN Null
    ELSE [source |-> source.pos, target |-> target.pos]

\* one pass of edges.map / edges.forEach: the line, or Null when none is drawn
edgeLine(canvas, nodes, edge) ==
    LET source == find(nodes, edge.from)
        target == find(nodes, edge.to)
    IN  IF source = Null \/ target = Null THEN Null
        ELSE IF canvas = "GraphView"
        THEN LET endpoints == calculateEdgeEndpoints(source, target)
             IN  IF endpoints = Null THEN Null
                 ELSE [from |-> edge.from, to |-> edge.to,
                       p1 |-> endpoints.source, p2 |-> endpoints.target]
        ELSE [from |-> edge.from, to |-> edge.to, p1 |-> source.pos, p2 |-> target.pos]

drawnEdges(canvas, nodes, edges) ==
    [i \in 1..Len(edges) |-> edgeLine(canvas, nodes, edges[i])]

\* one pass of nodes.map / nodeObjects.forEach: the circle, or Null when none is drawn
drawnNodes(canvas, nodes) ==
    [i \in 1..Len(nodes) |->
        IF canvas = "GraphView" /\ ~validPosition(nodes[i].pos) THEN Null
        ELSE [id |-> nodes[i].id, pos |-> nodes[i].pos]]

\* where the nodes of a canvas can be; GraphView alone tests the position
\* before it draws, so that only there a position that is no number matters
PlacesOf(canvas) ==
    {PInt(100, 100), PInt(200, 100)} \cup (IF canvas = "GraphView" THEN {Null} ELSE {})

DrawnCandidates ==
    << [from |-> "A", to |-> "B", color |-> None],
       [from |-> "B", to |-> "A", color |-> "#ff0000"],
       [from |-> "A", to |-> "A", color |-> None],
       [from |-> "A", to |-> "C", color |-> None],
       [from |-> "C", to |-> "B", color |-> None] >>

RECURSIVE chosenOf(_, _, _)
chosenOf(candidates, chosen, k) ==
    IF k > Len(candidates) THEN <<>>
    ELSE (IF k \in chosen THEN << candidates[k] >> ELSE <<>>) \o chosenOf(candidates, chosen, k + 1)

InitDraw ==
    \E canvas \in Canvases, withC \in BOOLEAN, chosen \in SUBSET (1..Len(DrawnCandidates)) :
        \E a \in PlacesOf(canvas), b \in PlacesOf(canvas), c \in PlacesOf(canvas) :
            /\ impl = canvas
            /\ app = [kind |-> "DrawHost",
                      nodes |-> << HostNode("A", a), HostNode("B", b) >>
                                    \o (IF withC THEN << HostNode("C", c) >> ELSE <<>>),
                      edges |-> chosenOf(DrawnCandidates, chosen, 1)]
            /\ (~withC => c = PInt(100, 100))
            /\ view = [mounted |-> FALSE, lines |-> Null, circles |-> Null]
            /\ closure = [app |-> app, view |-> view]
            /\ obs = InitialObs

\* the canvas renders
Draw ==
    /\ app.kind = "DrawHost" /\ ~view.mounted
    /\ view' = [mounted |-> TRUE,
                lines |-> drawnEdges(impl, app.nodes, app.edges),
                circles |-> drawnNodes(impl, app.nodes)]
    /\ closure' = [app |-> app, view |-> view']
    /\ obs' = [obs EXCEPT !.event = "render"]
    /\ UNCHANGED <<impl, app>>

NextDraw == Draw

SpecDraw == InitDraw /\ [][NextDraw]_vars

-----------------------------------------------------------------------------
(* Properties of the document under GraphVisualizer + GraphView            *)

LinkKeys(links) == {<<links[i].source, links[i].target>> : i \in 1..Len(links)}

\* the step is a pointer-up at which the canvas notified its host
DragCommitStep == obs'.event = "up" /\ obs'.updates = obs.updates + 1

\* C1: a drag commit made while some groups are hidden keeps every node and
\* every edge of the canonical document, those of the hidden groups included
C1_CommitKeepsDocument ==
    [][ (DragCommitStep /\ app.hiddenGroups # {}) =>
           /\ IdsOf(app'.graphData.nodes) = IdsOf(app.graphData.nodes)
           /\ LinkKeys(app'.graphData.links) = LinkKeys(app.graphData.links) ]_vars

\* C2: in GraphView a pointer-up notifies the host exactly once when it ends a
\* node drag and not at all when it ends a pan or arrives in Idle; a
\* pointer-move notifies nobody, and no other event notifies during a drag
C2_OneUpdatePerDrag ==
    [][ /\ obs'.event = "up" =>
              obs'.updates = obs.updates + (IF ControllerState(view) = "DraggingNode" THEN 1 ELSE 0)
        /\ obs'.event = "move" => obs'.updates = obs.updates
        /\ (ControllerState(view) = "DraggingNode" /\ obs'.event # "up") =>
              obs'.updates = obs.updates ]_vars

\* a node was pressed, moved and released, and the host was notified once
C2_DragCompleted ==
    /\ obs.event = "up" /\ obs.updates = 1
    /\ \E id \in NodeIds : obs.dragPos[id] # Null

\* C6: deleting node n from the context menu leaves a document without n and
\* without the edges that touch n, and with every other node and edge as it
\* was, those of hidden groups included
C6_DeleteCascades ==
    [][ obs'.event = "delete" =>
           /\ app'.graphData.nodes =
                 SelectSeq(app.graphData.nodes, LAMBDA node : node.id # closure.view.contextMenuNode)
           /\ app'.graphData.links =
                 SelectSeq(app.graphData.links,
                           LAMBDA link : /\ link.source # closure.view.contextMenuNode
                                         /\ link.target # closure.view.contextMenuNode) ]_vars

\* a node was deleted while a group was hidden, and an edge to a node of the
\* hidden group is still in the document
C6_DeletedWithHiddenEdge ==
    /\ obs.event = "delete" /\ app.hiddenGroups # {}
    /\ \E i \in 1..Len(app.graphData.links) :
          \E j \in 1..Len(app.graphData.nodes) :
             /\ app.graphData.nodes[j].id = app.graphData.links[i].target
             /\ groupOf(app.graphData.nodes[j]) \in app.hiddenGroups

\* C7: a node that a drag has placed is drawn by GraphView at that position on
\* every render of the mounted canvas until it is dragged again or deleted,
\* through the prop updates of the parent and the hiding and showing of groups
C7_DraggedPositionPersists ==
    \A id \in NodeIds :
        (view.mounted /\ obs.dragPos[id] # Null /\ IndexOf(view.nodes, id) # 0)
            => view.nodes[IndexOf(view.nodes, id)].pos = obs.dragPos[id]

\* node C of group b was dragged, and group b has just been shown again
C7_DraggedThenReshown ==
    /\ obs.event = "toggle-group" /\ app.hiddenGroups = {}
    /\ obs.dragPos["C"] # Null /\ IndexOf(view.nodes, "C") # 0
    /\ groupOf(view.nodes[IndexOf(view.nodes, "C")]) = "b"

\* C8: after the import of a file that gives a node an explicit position the
\* canvas draws the node at that position, also when the mounted canvas held
\* another position for the same id
C8_ImportedPositionShown ==
    [][ ( /\ obs'.event = "import-load"
          /\ app.reader.json /\ app.reader.hasNodes /\ app.reader.hasLinks
          /\ view'.mounted )
           => \A i \in 1..Len(app.reader.nodes) :
                 ( /\ app.reader.nodes[i].pos # Null
                   /\ IndexOf(view'.nodes, app.reader.nodes[i].id) # 0 )
                    => view'.nodes[IndexOf(view'.nodes, app.reader.nodes[i].id)].pos
                          = app.reader.nodes[i].pos ]_vars

\* the document of the page and what is derived from it
Document(a) ==
    [nodes |-> a.graphData.nodes, edges |-> a.graphData.links, groupColors |-> a.groupColorMap,
     shown |-> Props(a), hiddenGroups |-> a.hiddenGroups]

Renderable(graphData) ==
    /\ \A i, j \in 1..Len(graphData.nodes) : graphData.nodes[i].id = graphData.nodes[j].id => i = j
    /\ \A k \in 1..Len(graphData.links) :
           /\ graphData.links[k].source \in IdsOf(graphData.nodes)
           /\ graphData.links[k].target \in IdsOf(graphData.nodes)

\* the generate, example load or file load of this step succeeded with a non-empty document
Succeeds ==
    \/ /\ obs'.event \in {"generate", "example"}
       /\ parseGraphData(app'.nodeConnections, app'.nodeProperties).ok
       /\ Len(parseGraphData(app'.nodeConnections, app'.nodeProperties).nodes) > 0
    \/ /\ obs'.event = "import-load"
       /\ app.reader.json /\ app.reader.hasNodes /\ app.reader.hasLinks
       /\ Len(app.reader.nodes) > 0

\* C18: no error leaves the canvas unavailable: the document is renderable in
\* every state, and once a generate, example load or import succeeds with a
\* non-empty document the canvas is shown, whatever failed before
C18_SuccessShowsCanvas ==
    /\ []Renderable(app.graphData)
    /\ [][ Succeeds => view'.mounted /\ canvasShown(app') ]_vars

\* C14: the load of a file whose nodes field or edges field is missing or not
\* an array leaves the document of the page, and what is derived from it, as
\* it was.
C14_InvalidImportKeepsDocument ==
    [][ (obs'.event = "import-load" /\ app.reader.json
            /\ (~app.reader.hasNodes \/ ~app.reader.hasEdges))
           => Document(app') = Document(app) ]_vars

\* C15: the load of the file the page wrote shows the document as it was
\* shown when the file was written: the same nodes with their labels,
\* properties, positions and colours, the same links, the same group colours.
C15_ImportOfExportShowsExported ==
    [][ (obs'.event = "import-load" /\ obs.download # Null /\ app.reader = fileOf(obs.download))
           => Observable(app', view') = obs.exported ]_vars

\* C16: the state the page writes has the fields nodes, edges, groupColors and
\* version, and version is "1.0".
C16_ExportedFields ==
    obs.download # Null =>
        /\ {"nodes", "edges", "groupColors", "version"} \subseteq DOMAIN obs.download
        /\ obs.download.version = "1.0"

-----------------------------------------------------------------------------
(* Properties of the canvases                                              *)

\* the position of node id in a notification payload, Null when it is absent
PayloadPos(payload, id) ==
    IF IndexOf(payload.nodes, id) = 0 THEN Null
    ELSE payload.nodes[IndexOf(payload.nodes, id)].pos

\* C3: the position a release commits for the dragged node is the one the
\* last pointer-move gave it, the pointer's world position plus the offset
\* captured at the press; a pointer-move commits nothing
C3_CommitIsLastMove ==
    [][ /\ ( /\ obs'.event = "up" /\ obs'.updates > obs.updates
             /\ obs.drag # Null /\ obs.drag.target # Null
             /\ PayloadPos(obs'.last, obs.drag.node) # Null )
           => PayloadPos(obs'.last, obs.drag.node) = obs.drag.target
        /\ obs'.event = "move" => (obs'.updates = obs.updates /\ obs'.last = obs.last) ]_vars

\* C4: a pointer-up delivered while a node is dragged or the canvas is panned
\* brings the controller back to Idle, in each canvas and whatever was
\* rendered in the middle of the gesture
C4_UpReturnsToIdle ==
    [][ (obs'.event = "up" /\ ControllerState(view) \in {"DraggingNode", "PanningCanvas"})
           => ControllerState(view') = "Idle" ]_vars

\* the scale and pan the canvas holds
CurrentTransform(v) == IF impl = "D3Graph" THEN v.zoomT ELSE Transform(v.zoom, v.pan)

\* C5: while a node is dragged, a wheel event and the zoom-in and zoom-out
\* actions change neither the scale nor the pan
C5_NoZoomWhileDragging ==
    [][ (ControllerState(view) = "DraggingNode" /\ obs'.event \in {"wheel", "zoom-in", "zoom-out"})
           => CurrentTransform(view') = CurrentTransform(view) ]_vars

\* C9: in every canvas the scale stays within [0.1, 5], whatever wheel, zoom-in,
\* zoom-out, reset and fit-to-view actions were taken
C9_ScaleInRange ==
    /\ RLe(Rat(1, 10), CurrentTransform(view).k)
    /\ RLe(CurrentTransform(view).k, RInt(5))

\* the world point under screen point P with transform t
WorldUnder(P, t) == PUnscale(PSub(P, t.p), t.k)

\* C10: a wheel zoom at screen point P keeps the world point under P: with
\* (pan, k) the transform on screen when the wheel turns and (pan', k') the
\* new one, (P - pan')/k' = (P - pan)/k, also when the scale is clamped
C10_ZoomKeepsPointUnderMouse ==
    [][ obs'.event = "wheel" =>
           WorldUnder(obs'.at, CurrentTransform(view'))
              = WorldUnder(obs'.at, CurrentTransform(closure.view)) ]_vars

\* GraphView has zoomed in by one wheel step about a point off the origin
C10_WheelZoomed ==
    /\ obs.event = "wheel" /\ impl = "GraphView"
    /\ view.zoom = Rat(11, 10) /\ view.pan # Origin /\ obs.at # Origin

-----------------------------------------------------------------------------
(* Properties of the colours                                               *)

Palette == {defaultColors[i] : i \in 1..Len(defaultColors)}

\* the fill of the circles the last render drew in GraphView, SimpleDragGraph
RenderedScale ==
    IF impl = "SimpleDragGraph"
    THEN simpleColorScale(closure.view.nodes, closure.view.customGroupColors)
    ELSE colorScale(closure.view.nodes, closure.view.customGroupColors)

RenderedFill(node) ==
    IF impl = "D3Graph" THEN closure.view.fill[node.id] ELSE circleFill(node, RenderedScale)

\* the nodes the last render drew
RenderedNodes ==
    IF ~closure.view.mounted THEN <<>>
    ELSE IF impl = "D3Graph" THEN closure.view.nodeObjectsRef ELSE closure.view.nodes

\* the node set of the last render: the document of the page, the nodes prop of a canvas
CurrentNodes ==
    IF closure.app.kind = "GraphVisualizer" THEN closure.app.graphData.nodes
    ELSE Props(closure.app).nodes

\* the colour override of a node: the color of the node in the document of the
\* page, the color of the node of the canvas under any other host
OwnColour(node) ==
    IF closure.app.kind = "GraphVisualizer"
    THEN closure.app.graphData.nodes[IndexOf(closure.app.graphData.nodes, node.id)].color
    ELSE node.color

\* the colour a group has by default: the entry of groupColorMap in the page,
\* an entry of the palette in a canvas
IsDefaultOf(colour, g) ==
    IF closure.app.kind = "GraphVisualizer"
    THEN colour = closure.app.groupColorMap[g] /\ colour \in Palette
    ELSE colour \in Palette

C12_DefaultColourBySortedIndex ==
    \A i \in 1..Len(RenderedNodes) :
        LET node == RenderedNodes[i] IN
        (OwnColour(node) = None /\ closure.view.customGroupColors[groupOf(node)] = None)
            => RenderedFill(node) = paletteEntry(PositionIn(sortedGroups(CurrentNodes), groupOf(node)))

\* C13: in SimpleDragGraph and D3Graph, once the user has given a group a
\* colour, every rendered member of the group, the members of "default"
\* included, is filled with the colour the user last gave the group, unless the
\* user recoloured the node itself, and then it keeps the colour the user last
\* gave it.
C13_GroupColourReachesMembers ==
    impl # "GraphView" =>
        \A i \in 1..Len(RenderedNodes) :
            LET node == RenderedNodes[i] IN
            obs.groupColour[groupOf(node)] # None =>
                RenderedFill(node) = IF obs.nodeColour[node.id] # None
                                     THEN obs.nodeColour[node.id]
                                     ELSE obs.groupColour[groupOf(node)]

-----------------------------------------------------------------------------
(* Properties of the parser                                                *)

\* the connection grammar: SOURCE_ID (ARROW | DASH) TARGET_ID [ "[" COLOR "]" ]
IdChar(c) == c \notin {"-", "=", ">", "emdash", "endash", "[", "]", ",", ";"} \cup Whitespace
IsId(cs) == cs # <<>> /\ \A k \in 1..Len(cs) : IdChar(cs[k])
Arrows == { << "-", ">" >>, << "=", ">" >>, << "emdash" >>, << "endash" >>, << "-" >> }

\* the edges a token stands for under the grammar: one when it matches, none when it does not
GrammarEdges(t) ==
    { [source |-> Str(SubSeq(t, 1, x[1])),
       target |-> Str(SubSeq(t, x[1] + x[2] + 1, x[3])),
       color |-> IF x[3] = Len(t) THEN None ELSE Str(SubSeq(t, x[3] + 2, Len(t) - 1))] :
      x \in { y \in (1..Len(t)) \X {1, 2} \X (1..Len(t)) :
                /\ IsId(SubSeq(t, 1, y[1]))
                /\ y[1] + y[2] < y[3] + 1 /\ SubSeq(t, y[1] + 1, y[1] + y[2]) \in Arrows
                /\ IsId(SubSeq(t, y[1] + y[2] + 1, y[3]))
                /\ \/ y[3] = Len(t)
                   \/ /\ y[3] + 3 <= Len(t) /\ t[y[3] + 1] = "[" /\ t[Len(t)] = "]"
                      /\ \A k \in (y[3] + 2)..(Len(t) - 1) : t[k] # "]" } }

Matches(t) == GrammarEdges(t) # {}
GrammarEdge(t) == CHOOSE e \in GrammarEdges(t) : TRUE

\* C19: of tokens separated by whitespace, commas, semicolons and newlines in
\* any mix, every token that matches the grammar yields exactly one edge, and
\* every token that does not is skipped and reported, the tokens before and
\* after it being parsed all the same
C19_EveryTokenParsedOrReported ==
    (view.result # Null /\ view.result.ok) =>
        /\ view.result.links = MapSeq(SelectSeq(app.tokens, Matches), GrammarEdge)
        /\ view.result.warned = SelectSeq(app.tokens, LAMBDA t : ~Matches(t))

\* the ids of the endpoints of the links, in first-seen order
RECURSIVE Endpoints(_, _)
Endpoints(links, seen) ==
    IF links = <<>> THEN seen
    ELSE Endpoints(Tail(links),
                   LET withSource == IF \E i \in 1..Len(seen) : seen[i] = Head(links).source
                                     THEN seen ELSE Append(seen, Head(links).source) IN
                   IF \E i \in 1..Len(withSource) : withSource[i] = Head(links).target
                   THEN withSource ELSE Append(withSource, Head(links).target))

\* C20: for a connection text whose tokens all match the grammar (and no
\* properties), parseGraphData returns one edge per token in encounter order
\* with the token's source, target and colour (unset without bracket), one
\* node per distinct endpoint in first-seen order with the id as label, every
\* edge endpoint among the nodes; empty inputs give the empty document
C20_DocumentOfMatchingTokens ==
    (view.result # Null /\ app.propertiesText = Blank /\ \A i \in 1..Len(app.tokens) : Matches(app.tokens[i])) =>
        /\ view.result.ok
        /\ view.result.links = MapSeq(app.tokens, GrammarEdge)
        /\ MapSeq(view.result.nodes, LAMBDA node : node.id) = Endpoints(MapSeq(app.tokens, GrammarEdge), <<>>)
        /\ \A i \in 1..Len(view.result.nodes) : view.result.nodes[i].name = view.result.nodes[i].id
        /\ Renderable(view.result)
        /\ app.tokens = <<>> => view.result.nodes = <<>> /\ view.result.links = <<>>

\* the nodes the connections alone give
ConnectionNodes == parseGraphData(app.connectionsText, Blank).nodes

\* what the property pass makes of the nodes conn of the connections
PropertyPassed(conn, entries, nodes) ==
    /\ Len(nodes) >= Len(conn)
    /\ \A i \in 1..Len(conn) :
           /\ nodes[i].id = conn[i].id
           /\ (\A k \in 1..Len(entries) : entries[k].id # nodes[i].id) => nodes[i] = conn[i]
    /\ \A k \in 1..Len(entries) :
           \E i \in 1..Len(nodes) :
               /\ nodes[i].id = entries[k].id
               /\ nodes[i].properties = entries[k].bag
               /\ IF entries[k].id \in IdsOf(conn)
                  THEN /\ i <= Len(conn)
                       /\ nodes[i].name = IF entries[k].bag.name # None THEN entries[k].bag.name
                                           ELSE conn[i].name
                  ELSE /\ i > Len(conn)
                       /\ nodes[i].name = entries[k].id
    /\ \A i \in 1..Len(nodes) :
           i > Len(conn) => \E k \in 1..Len(entries) : entries[k].id = nodes[i].id

\* C21: the property pass, for every (nodeId, bag) entry: a node the
\* connections created keeps its place, gets the bag as its properties and
\* bag.name as its label when the bag has a name (its label stays otherwise);
\* an id that is new becomes a node with label = nodeId and properties = bag
\* after all the nodes of the connections; the other nodes are as they were
C21_PropertyPass ==
    (view.result # Null /\ app.propertiesText.json = "ok") =>
        /\ view.result.ok
        /\ PropertyPassed(ConnectionNodes, app.propertiesText.entries, view.result.nodes)

\* a parse whose properties name a node of the connections, give another no
\* name, and bring a new id
C21_PropertiesOnOldAndNewNodes ==
    /\ view.result # Null /\ app.propertiesText.json = "ok" /\ Len(app.propertiesText.entries) = 3
    /\ {"A", "B"} \subseteq IdsOf(ConnectionNodes)
    /\ \E i \in 1..Len(view.result.nodes) : view.result.nodes[i].name = "Node A"
    /\ view.result.nodes[Len(view.result.nodes)].id = "E"

-----------------------------------------------------------------------------
(* Properties of the sizes                                                 *)

\* the edges entering (leaving) the node, and the most over the nodes
DegreeOf(id) ==
    IF app.nodeSizingMode = "incoming"
    THEN Cardinality({k \in 1..Len(app.props.edges) : app.props.edges[k].to = id})
    ELSE Cardinality({k \in 1..Len(app.props.edges) : app.props.edges[k].from = id})

MaxDegree == MaxNat({DegreeOf(app.props.nodes[i].id) : i \in 1..Len(app.props.nodes)})

\* C22: in sizing mode incoming (outgoing) the radius of every node is
\* 5 + 15 * degree / max(1, maxDegree), degree the number of edges entering
\* (leaving) it and maxDegree the most over the nodes: 5 for degree 0, 20 for
\* the largest degree (>= 1), always within [5, 20], 5 everywhere without edges
C22_RadiusByDegree ==
    (view.mounted /\ app.kind = "SizeHost" /\ impl \in {"GraphView", "D3Graph"}
       /\ app.nodeSizingMode \in {"incoming", "outgoing"}) =>
        \A i \in 1..Len(app.props.nodes) :
            LET degree == DegreeOf(app.props.nodes[i].id) IN
            /\ view.sizes[i] = RAdd(RInt(5), Rat(15 * degree, MaxNat({1, MaxDegree})))
            /\ degree = 0 => view.sizes[i] = RInt(5)
            /\ (degree = MaxDegree /\ degree >= 1) => view.sizes[i] = RInt(20)
            /\ RLe(RInt(5), view.sizes[i]) /\ RLe(view.sizes[i], RInt(20))

\* the values of the chosen property over the nodes that define it
DefinedValues ==
    {app.props.nodes[i].properties.value :
        i \in {k \in 1..Len(app.props.nodes) : app.props.nodes[k].properties.value # Null}}

IsMin(v) == v \in DefinedValues /\ \A w \in DefinedValues : RLe(v, w)
IsMax(v) == v \in DefinedValues /\ \A w \in DefinedValues : RLe(w, v)

\* C23: in sizing mode by-property a node that defines the property gets
\* 4 + 16 * (value - min) / (max - min), min and max over the nodes that define
\* it: 4 at the minimum, 20 at the maximum, always within [4, 20]; a node
\* without the property, and every node when min = max, gets 8
C23_RadiusByProperty ==
    (view.mounted /\ app.kind = "SizeHost" /\ impl = "GraphView" /\ app.nodeSizingMode = "property") =>
        \A i \in 1..Len(app.props.nodes) :
            LET value == app.props.nodes[i].properties.value IN
            IF value = Null \/ \E v \in DefinedValues : IsMin(v) /\ IsMax(v)
            THEN view.sizes[i] = RInt(8)
            ELSE \E min, max \in DefinedValues :
                    /\ IsMin(min) /\ IsMax(max)
                    /\ view.sizes[i] = RAdd(RInt(4), RDiv(RMul(RInt(16), RSub(value, min)), RSub(max, min)))
                    /\ value = min => view.sizes[i] = RInt(4)
                    /\ value = max => view.sizes[i] = RInt(20)
                    /\ RLe(RInt(4), view.sizes[i]) /\ RLe(view.sizes[i], RInt(20))

\* GraphView sized three nodes by a property with three different values
C23_ThreeValuesSized ==
    /\ view.mounted /\ app.kind = "SizeHost" /\ impl = "GraphView" /\ app.nodeSizingMode = "property"
    /\ Len(app.props.nodes) = 3 /\ Cardinality(DefinedValues) = 3
    /\ view.sizes[1] = RInt(4) /\ view.sizes[3] = RInt(20)
    /\ RLt(RInt(4), view.sizes[2]) /\ RLt(view.sizes[2], RInt(20))

-----------------------------------------------------------------------------
(* Properties of the context menu                                          *)

\* C24: a right-button pointer-down on a node enters neither DraggingNode nor
\* PanningCanvas, the state of the pointer controller stays as it was; it opens
\* the context menu of that node, and the next click outside the menu closes it
C24_RightClickOpensMenuOnly ==
    /\ [][ obs'.event = "context-menu"
              => /\ ControllerState(view') = ControllerState(view)
                 /\ view'.showContextMenu /\ view'.contextMenuNode \in NodeIds ]_vars
    /\ [][ obs'.event = "click-outside" => ~view'.showContextMenu ]_vars


\* ---------------------------------------------------------------------
\* Properties of the document listeners
\* ---------------------------------------------------------------------

\* C25: the mousemove and mouseup listeners on document are never registered
\* more than once at a time, those a gesture registered are released when the
\* gesture ends, and none is registered once the component is torn down,
\* whatever happened during the gesture
C25_ListenersScoped ==
    /\ [](Cardinality(view.docMove) <= 1 /\ Cardinality(view.docUp) <= 1)
    /\ [][ obs'.event = "up" /\ impl = "D3Graph"
              => view'.docMove = {} /\ view'.docUp = {} ]_vars
    /\ [](~view.mounted => view.docMove = {} /\ view.docUp = {})


\* ---------------------------------------------------------------------
\* Properties of the PlantUML text
\* ---------------------------------------------------------------------

\* the lines of a text
LinesOf(text) ==
    splitAt(text, << 0 >> \o SelectSeq([i \in 1..Len(text) |-> i], LAMBDA i : text[i] = "\n")
                          \o << Len(text) + 1 >>)

HeaderLines == Cardinality({i \in 1..Len(plantUMLHeader) : plantUMLHeader[i] = "\n"})

\* the token of an id: every character outside [A-Za-z0-9_] becomes "_"
Sanitised(id) == [k \in 1..Len(id) |-> IF id[k] \in WordChars THEN id[k] ELSE "_"]

\* the part of a line from position p up to its colour, if it has one
TokenFrom(line, p) ==
    LET stop == Smallest({k \in p..Len(line) : line[k] = " #"} \cup {Len(line) + 1})
    IN  SubSeq(line, p, stop - 1)

\* the token a declaration line gives the node named in it
DeclaredToken(line, node) ==
    TokenFrom(line, Len(IF node.name # <<>> THEN node.name ELSE node.id) + 3)

ArrowAt(line) == Smallest({k \in 1..Len(line) : line[k] = " --> "} \cup {Len(line) + 1})
SourceToken(line) == SubSeq(line, 1, ArrowAt(line) - 1)
TargetToken(line) == TokenFrom(line, ArrowAt(line) + 1)

PlantUMLOf(graphData, lines) ==
    LET nodes == graphData.nodes
        links == graphData.links
        first == HeaderLines + Len(nodes) + 1
    IN  /\ Len(lines) = first + Len(links) + 1
        /\ \A i \in 1..Len(nodes) :
              /\ Head(lines[HeaderLines + i]) = "node \""
              /\ DeclaredToken(lines[HeaderLines + i], nodes[i]) = Sanitised(nodes[i].id)
        /\ \A j \in 1..Len(links) :
              /\ SourceToken(lines[first + j]) = Sanitised(links[j].source.id)
              /\ TargetToken(lines[first + j]) = Sanitised(links[j].target.id)
              /\ \A i \in 1..Len(nodes) :
                    /\ links[j].source.id = nodes[i].id
                          => SourceToken(lines[first + j]) = DeclaredToken(lines[HeaderLines + i], nodes[i])
                    /\ links[j].target.id = nodes[i].id
                          => TargetToken(lines[first + j]) = DeclaredToken(lines[HeaderLines + i], nodes[i])

\* C26: the text declares the nodes in input order, each with its id in which
\* every character outside [A-Za-z0-9_] is "_", then writes the edges in input
\* order with both ends turned into tokens the same way, so that an end of an
\* edge carries the token of the declaration of the node with that id
C26_SanitisedTokensInOrder ==
    \A c \in 1..Len(view.texts) : PlantUMLOf(app.graphData, LinesOf(view.texts[c]))

\* a text with the declaration of "A B" as A_B, of "a-1.x" as a_1_x, and an edge between them
C26_TokensOfUnsafeIds ==
    /\ app.kind = "Exporter" /\ view.texts # <<>>
    /\ \E i, k \in 1..Len(app.graphData.nodes), j \in 1..Len(app.graphData.links) :
          LET lines == LinesOf(view.texts[1])
              first == HeaderLines + Len(app.graphData.nodes) + 1
          IN  /\ app.graphData.nodes[i].id = << "A", " ", "B" >>
              /\ app.graphData.nodes[k].id = << "a", "-", "1", ".", "x" >>
              /\ i < k
              /\ app.graphData.links[j].source.id = app.graphData.nodes[i].id
              /\ SourceToken(lines[first + j]) = << "A", "_", "B" >>
              /\ TargetToken(lines[first + j]) = << "a", "_", "1", "_", "x" >>
              /\ DeclaredToken(lines[HeaderLines + k], app.graphData.nodes[k]) = << "a", "_", "1", "_", "x" >>

C28_NotificationCarriesCurrentEdges ==
    [][ (impl = "D3Graph" /\ app.kind = "Host" /\ DragCommitStep)
           => obs'.last.edges = app.props.edges ]_vars


\* ---------------------------------------------------------------------
\* Properties of the pointer-moves
\* ---------------------------------------------------------------------

\* where the canvas holds node id, Null when it does not hold it
PosIn(v, id) ==
    IF impl = "D3Graph" THEN v.dom[id]
    ELSE IF IndexOf(v.nodes, id) = 0 THEN Null ELSE v.nodes[IndexOf(v.nodes, id)].pos

\* the nodes of the canvas without their positions: membership, order, colours
Unplaced(v) ==
    IF impl = "D3Graph" THEN [i \in 1..Len(v.nodeObjectsRef) |-> [v.nodeObjectsRef[i] EXCEPT !.pos = Null]]
    ELSE [i \in 1..Len(v.nodes) |-> [v.nodes[i] EXCEPT !.pos = Null]]

\* the step is a pointer-move that finds the pressed node dragged and on the canvas
DragMoveStep ==
    /\ obs'.event = "move" /\ obs.drag # Null
    /\ ControllerState(view) = "DraggingNode"
    /\ PosIn(view, obs.drag.node) # Null

\* C29: a pointer-move in DraggingNode puts the dragged node at the pointer's
\* world position plus the offset captured at the press, and changes nothing
\* else: not the other nodes' positions, colours or membership, not the edges,
\* not the pan and not the scale
C29_MoveMovesDraggedNodeOnly ==
    [][ DragMoveStep =>
           /\ PosIn(view', obs.drag.node) = obs'.drag.target
           /\ \A id \in NodeIds \ {obs.drag.node} : PosIn(view', id) = PosIn(view, id)
           /\ Unplaced(view') = Unplaced(view)
           /\ app' = app
           /\ CurrentTransform(view') = CurrentTransform(view) ]_vars


\* the step is a pointer-move of a pan gesture that finds the canvas panned;
\* the gesture had nothing but pointer-moves since the press
PanMoveStep ==
    /\ obs'.event = "move" /\ obs.pan # Null
    /\ ControllerState(view) = "PanningCanvas"

\* C30: a pointer-move in PanningCanvas adds to the pan the displacement of the
\* pointer on screen since the previous pointer event of the gesture, whether
\* or not the canvas was rendered in between, so that the pan of a whole
\* gesture is the way of the pointer from press to release; the scale and the
\* positions of the nodes stay as they are
C30_PanFollowsPointer ==
    [][ PanMoveStep =>
           /\ CurrentTransform(view').p = PAdd(CurrentTransform(view).p, PSub(obs'.pan.prev, obs.pan.prev))
           /\ CurrentTransform(view').k = CurrentTransform(view).k
           /\ \A id \in NodeIds : PosIn(view', id) = PosIn(view, id) ]_vars


\* ---------------------------------------------------------------------
\* Properties of the drawing
\* ---------------------------------------------------------------------

\* the centre of the circle drawn for node id, Null when none is drawn
CircleOf(circles, id) ==
    IF \E i \in 1..Len(circles) : circles[i] # Null /\ circles[i].id = id
    THEN (CHOOSE c \in {circles[i] : i \in {j \in 1..Len(circles) : circles[j] # Null}} : c.id = id).pos
    ELSE Null

\* C31: an edge is drawn exactly when both its ends are nodes the canvas draws
\* and their centres differ; an edge that is left out takes no other edge and
\* no node with it
C31_EdgeDrawnIffEndsApart ==
    view.mounted /\ app.kind = "DrawHost" =>
        /\ Len(view.lines) = Len(app.edges)
        /\ \A i \in 1..Len(app.edges) :
              view.lines[i] # Null <=>
                  /\ CircleOf(view.circles, app.edges[i].from) # Null
                  /\ CircleOf(view.circles, app.edges[i].to) # Null
                  /\ CircleOf(view.circles, app.edges[i].from) # CircleOf(view.circles, app.edges[i].to)
        /\ \A i \in 1..Len(app.nodes) :
              view.circles[i] # Null <=> validPosition(app.nodes[i].pos)


\* ---------------------------------------------------------------------
\* Properties of the pointer controller
\* ---------------------------------------------------------------------

Unpositioned(node) == [node EXCEPT !.pos = Null]

\* C33: with no group hidden, a drag commit leaves every node of the document
\* its colour override (set or not), label and properties, and every edge its
\* ends and colour: nothing but positions changes
C33_CommitChangesPositionsOnly ==
    [][ (DragCommitStep /\ app.kind = "GraphVisualizer" /\ app.hiddenGroups = {}) =>
           /\ MapSeq(app'.graphData.nodes, Unpositioned) = MapSeq(app.graphData.nodes, Unpositioned)
           /\ app'.graphData.links = app.graphData.links ]_vars


\* ---------------------------------------------------------------------
\* Properties of the declaration tokens
\* ---------------------------------------------------------------------

\* C36: in a text nodes with distinct ids are declared with distinct tokens,
\* so that each end of an edge line carries the token of at most one id
C36_DistinctIdsDistinctTokens ==
    \A c \in 1..Len(view.texts) :
        LET lines == LinesOf(view.texts[c])
            nodes == app.graphData.nodes
        IN  \A i, k \in 1..Len(nodes) :
                nodes[i].id # nodes[k].id
                    => DeclaredToken(lines[HeaderLines + i], nodes[i])
                           # DeclaredToken(lines[HeaderLines + k], nodes[k])

\* the text declares "A B" and "A_B" with the one token A_B, and an edge line
\* that ends on A_B refers to both declarations
C36_TwoIdsOneToken ==
    /\ app.kind = "Exporter" /\ view.texts # <<>>
    /\ \E i, k \in 1..Len(app.graphData.nodes), j \in 1..Len(app.graphData.links) :
          LET lines == LinesOf(view.texts[1])
              first == HeaderLines + Len(app.graphData.nodes) + 1
          IN  /\ app.graphData.nodes[i].id = << "A", " ", "B" >>
              /\ app.graphData.nodes[k].id = << "A", "_", "B" >>
              /\ DeclaredToken(lines[HeaderLines + i], app.graphData.nodes[i]) = << "A", "_", "B" >>
              /\ DeclaredToken(lines[HeaderLines + k], app.graphData.nodes[k]) = << "A", "_", "B" >>
              /\ TargetToken(lines[first + j]) = << "A", "_", "B" >>


\* ---------------------------------------------------------------------
\* Properties of the fixed node
\* ---------------------------------------------------------------------

\* C37: the fixed node of the page is unset or a node of the current document
C37_FixedNodeInDocument ==
    app.kind = "GraphVisualizer" =>
        \/ app.fixedNode = None
        \/ \E i \in 1..Len(app.graphData.nodes) : app.graphData.nodes[i].id = app.fixedNode

\* a node was fixed and the document was then replaced by one that has it still
C37_FixedNodeKept ==
    /\ app.kind = "GraphVisualizer" /\ app.fixedNode # None
    /\ obs.event \in {"generate", "example", "import-load", "delete"}
    /\ \E i \in 1..Len(app.graphData.nodes) : app.graphData.nodes[i].id = app.fixedNode


\* ---------------------------------------------------------------------
\* Properties of the PlantUML text and of the import of the page
\* ---------------------------------------------------------------------

\* C34: a step of the page that sets the document or the PlantUML text leaves
\* the text equal to exportToPlantUML of the document
C34_TextIsExportOfDocument ==
    [][ (app.kind = "GraphVisualizer"
            /\ (app'.graphData # app.graphData \/ app'.plantUMLText # app.plantUMLText)) =>
           /\ ~exportThrows(app'.graphData)
           /\ app'.plantUMLText = plantUML(app'.graphData) ]_vars

\* the load of a file whose import ends with a toast of failure
ImportFailsStep ==
    /\ app.kind = "GraphVisualizer" /\ app.reader # Null
    /\ obs'.event = "import-load"
    /\ importToast(app.reader) # "Graph imported"

\* C35: an import that reports failure leaves the document, the PlantUML text,
\* the available sizing properties, the hidden groups and the active tab as
\* they were
C35_FailedImportChangesNothing ==
    [][ ImportFailsStep =>
           /\ app'.graphData = app.graphData
           /\ app'.plantUMLText = app.plantUMLText
           /\ app'.availableProperties = app.availableProperties
           /\ app'.hiddenGroups = app.hiddenGroups
           /\ app'.activeTab = app.activeTab ]_vars

====
